---- MODULE Spec2Model ----
(***************************************************************************)
(* Model of the aluminum_intel package: the four source adapters of        *)
(* data_layer.py, the aggregator get_aluminum_market_snapshot, and the     *)
(* downstream consumers run by main.executar_fluxo (analytics, cost_model, *)
(* inteligencia).                                                          *)
(*                                                                         *)
(* Conventions.                                                            *)
(*  - A Python Optional is a sequence of length <= 1: None is << >> and a  *)
(*    present value v is << v >>.                                          *)
(*  - A Python str is the sequence of its code points (integers), so that  *)
(*    str.replace, str.lower, the substring test, repr and float() are     *)
(*    computed for every character of Unicode. Str(<<"a", "b">>) writes an *)
(*    ASCII text and Ord["a"] is the code point of an ASCII character.     *)
(*  - A Python float is an IEEE 754 binary64 value: [kind |-> "fin", neg,  *)
(*    m, e] is (-1)^neg * m * 2^e with m an odd natural of any size (0 is  *)
(*    m = << >>, e = 0), [kind |-> "inf", neg] an infinity and             *)
(*    [kind |-> "nan"] NaN; arithmetic rounds to nearest, ties to even.    *)
(*  - A Python int of a decoded JSON value is [neg, n]: (-1)^neg * n for a *)
(*    natural n of any size. Lengths and counts are integers.              *)
(*  - A decoded JSON value is a one-field record tagged by its type:       *)
(*    [null], [bool], [int], [num] (a float), [str], [arr], [obj] (the     *)
(*    items [key, value] of the dict in insertion order).                  *)
(*  - A warning is [text |-> the message, arg |-> the strs the f-string    *)
(*    interpolates into it, in order (<< >> when it has none)]. Message    *)
(*    texts are written without their diacritics.                          *)
(***************************************************************************)
EXTENDS Integers, Sequences, FiniteSets

\* ------------------------------------------------------------------ bounds

\* Largest number of rows of an HTML table of the exchange page.
MaxRows == 2
\* Largest number of daily rows of the history the provider returns.
MaxHist == 2
\* Largest number of direct calls of gerar_insights_compra after a run.
MaxConsumerCalls == 2

\* --------------------------------------------------------------- optionals

None == << >>

Some(v) == << v >>

IsNone(o) == o = << >>

Get(o) == o[1]

\* ----------------------------------------------------------------- helpers

RECURSIVE SeqsUpTo(_, _)
SeqsUpTo(S, n) ==
    IF n = 0 THEN { << >> }
    ELSE LET shorter == SeqsUpTo(S, n - 1)
         IN  shorter \cup { Append(s, x) : s \in { t \in shorter : Len(t) = n - 1 }, x \in S }

\* ------------------------------------------------------- natural numbers

\* A natural number of any size is the sequence of its digits in base Base,
\* least significant first and without leading zeros; 0 is << >>. A digit
\* has half the 31 binary digits of an integer, so that the product of two
\* digits is an integer.
BaseBits == 31 \div 2

Base == 2 ^ BaseBits

Max(a, b) == IF a >= b THEN a ELSE b

Min(a, b) == IF a <= b THEN a ELSE b

Abs(n) == IF n < 0 THEN 0 - n ELSE n

\* The digits a without the zeros at the most significant end.
BTrim(a) ==
    IF Len(a) = 0 THEN << >>
    ELSE IF a[Len(a)] # 0 THEN SubSeq(a, 1, Len(a))
    ELSE IF \A i \in 1..Len(a) : a[i] = 0 THEN << >>
    ELSE SubSeq(a, 1, CHOOSE i \in 1..Len(a) : a[i] # 0 /\ \A j \in (i + 1)..Len(a) : a[j] = 0)

\* A natural n < 2^31 given as an integer, as such a number.
BNat(n) == BTrim(<< n % Base, (n \div Base) % Base, n \div (Base * Base) >>)

Limb(a, i) == IF i <= Len(a) THEN a[i] ELSE 0

\* The carry into position i of a + b: the position below hands on its own
\* carry, or, when its digits add up to Base - 1, the one that comes into it.
CarryInto(a, b, i) ==
    IF i = 1 THEN 0
    ELSE IF Limb(a, i - 1) + Limb(b, i - 1) # Base - 1
    THEN (Limb(a, i - 1) + Limb(b, i - 1)) \div Base
    ELSE IF \E j \in 1..(i - 2) :
                /\ Limb(a, j) + Limb(b, j) >= Base
                /\ \A k \in (j + 1)..(i - 2) : Limb(a, k) + Limb(b, k) = Base - 1
    THEN 1
    ELSE 0

\* a + b
BAdd(a, b) ==
    IF Len(a) = 0 THEN BTrim(b)
    ELSE IF Len(b) = 0 THEN BTrim(a)
    ELSE BTrim([i \in 1..(Max(Len(a), Len(b)) + 1) |->
                   (Limb(a, i) + Limb(b, i) + CarryInto(a, b, i)) % Base])

\* The borrow position i of a - b hands down: the position below takes one
\* when its digit of a is the smaller, or, when its digits are equal, when it
\* hands one down itself.
BorrowInto(a, b, i) ==
    IF i = 1 THEN 0
    ELSE IF Limb(a, i - 1) # Limb(b, i - 1)
    THEN (IF Limb(a, i - 1) < Limb(b, i - 1) THEN 1 ELSE 0)
    ELSE IF \E j \in 1..(i - 2) :
                /\ Limb(a, j) < Limb(b, j)
                /\ \A k \in (j + 1)..(i - 2) : Limb(a, k) = Limb(b, k)
    THEN 1
    ELSE 0

\* a - b for a >= b
BSub(a, b) ==
    IF Len(b) = 0 THEN a
    ELSE BTrim([i \in 1..Len(a) |->
                   (Limb(a, i) - Limb(b, i) - BorrowInto(a, b, i) + Base) % Base])

\* a * k for a digit k: the low halves of the products of the digits, plus
\* their high halves one position up.
BMulSmall(a, k) ==
    IF Len(a) = 0 \/ k = 0 THEN << >>
    ELSE BAdd([i \in 1..Len(a) |-> (a[i] * k) % Base],
              << 0 >> \o [i \in 1..Len(a) |-> (a[i] * k) \div Base])

\* -1, 0 or 1 as a < b, a = b or a > b
BCmp(a, b) ==
    IF Len(a) # Len(b) THEN (IF Len(a) < Len(b) THEN 0 - 1 ELSE 1)
    ELSE LET diff == { i \in 1..Len(a) : a[i] # b[i] }
             top  == CHOOSE i \in diff : \A j \in diff : j <= i
         IN  IF diff = {} THEN 0 ELSE IF a[top] < b[top] THEN 0 - 1 ELSE 1

\* a * 2^n
BShl(a, n) ==
    IF Len(a) = 0 THEN << >>
    ELSE IF n % BaseBits = 0 THEN [i \in 1..(n \div BaseBits) |-> 0] \o a
    ELSE [i \in 1..(n \div BaseBits) |-> 0] \o BMulSmall(a, 2 ^ (n % BaseBits))

\* a \div 2^n: a digit of it is the high part of one digit of a and the low
\* part of the next.
BShr(a, n) ==
    IF Len(a) <= n \div BaseBits THEN << >>
    ELSE BTrim([i \in 1..(Len(a) - (n \div BaseBits)) |->
                   (Limb(a, i + (n \div BaseBits)) \div (2 ^ (n % BaseBits)))
                   + (Limb(a, i + (n \div BaseBits) + 1) % (2 ^ (n % BaseBits)))
                     * (2 ^ (BaseBits - (n % BaseBits)))])

\* The number of binary digits of the digit v > 0.
DigitBits(v) == CHOOSE k \in 1..BaseBits : 2 ^ (k - 1) <= v /\ v < 2 ^ k

\* The number of binary digits of a; 0 for 0.
BBitLen(a) == IF Len(a) = 0 THEN 0 ELSE BaseBits * (Len(a) - 1) + DigitBits(a[Len(a)])

\* The number of zero binary digits at the least significant end of the
\* digit v > 0.
DigitTz(v) == CHOOSE k \in 0..(BaseBits - 1) : v % (2 ^ k) = 0 /\ v % (2 ^ (k + 1)) # 0

\* The position of the least significant digit of a > 0 that is not 0.
LowDigit(a) == CHOOSE i \in 1..Len(a) : a[i] # 0 /\ \A j \in 1..(i - 1) : a[j] = 0

\* The number of zero binary digits at the least significant end of a > 0.
BTz(a) == BaseBits * (LowDigit(a) - 1) + DigitTz(a[LowDigit(a)])

\* The binary digit of weight 2^i of a.
BBit(a, i) == (Limb(a, (i \div BaseBits) + 1) \div (2 ^ (i % BaseBits))) % 2

\* a * b: a times the digits lo..hi of b, by halves.
RECURSIVE BMulRange(_, _, _, _)
BMulRange(a, b, lo, hi) ==
    IF lo = hi THEN BMulSmall(a, b[lo])
    ELSE BAdd(BMulRange(a, b, lo, (lo + hi) \div 2),
              [i \in 1..(((lo + hi) \div 2) + 1 - lo) |-> 0]
              \o BMulRange(a, b, ((lo + hi) \div 2) + 1, hi))

BMul(a, b) == IF Len(a) = 0 \/ Len(b) = 0 THEN << >> ELSE BMulRange(a, b, 1, Len(b))

\* h * h, times 10 for odd = 1
PowStep(h, odd) == IF odd = 1 THEN BMulSmall(BMul(h, h), 10) ELSE BMul(h, h)

\* 10^n
RECURSIVE BPow10(_)
BPow10(n) == IF n <= 4 THEN << 10 ^ n >> ELSE PowStep(BPow10(n \div 2), n % 2)

\* The long division of a by a digit k > 0 over the digits lo..hi of a,
\* counted from the most significant one, by halves: c is the remainder that
\* comes in, and the result is [d |-> the digits of the quotient, the most
\* significant first, c |-> the remainder].
RECURSIVE DivPass(_, _, _, _, _)
DivOne(t, k) == [d |-> << t \div k >>, c |-> t % k]

DivGlue(d, r) == [d |-> d \o r.d, c |-> r.c]

DivRest(a, k, lo, hi, l) == DivGlue(l.d, DivPass(a, k, lo, hi, l.c))

DivPass(a, k, lo, hi, c) ==
    IF lo > hi THEN [d |-> << >>, c |-> c]
    ELSE IF lo = hi THEN DivOne(c * Base + a[Len(a) + 1 - lo], k)
    ELSE DivRest(a, k, ((lo + hi) \div 2) + 1, hi, DivPass(a, k, lo, (lo + hi) \div 2, c))

\* The quotient and the remainder such a division leaves: r is an integer.
Divided(s) == [q |-> BTrim([i \in 1..Len(s.d) |-> s.d[Len(s.d) + 1 - i]]), r |-> s.c]

\* [q |-> a \div k, r |-> a % k] for a digit k > 0
BDivSmall(a, k) == Divided(DivPass(a, k, 1, Len(a), 0))

\* The long division of n by d, one digit of the quotient at a time, for d
\* with a leading digit of Base / 2 at least and r < d * Base. QuotGuess is
\* the quotient of the two leading digits of r by the leading digit of d,
\* which is the digit of the quotient or up to 2 above it; QuotFix is the
\* largest c <= guess with d * c <= r.
QuotGuess(r, d) ==
    Min(Base - 1, (Limb(r, Len(d) + 1) * Base + Limb(r, Len(d))) \div d[Len(d)])

QuotFix(r, d, guess) ==
    guess - Cardinality({ c \in {guess - 1, guess} : c > 0 /\ BCmp(BMulSmall(d, c), r) > 0 })

\* i digits of n are still to bring down; q is the quotient so far and r the
\* remainder so far (both are looked at in every step, which keeps them
\* computed). DivDigit takes the step for the remainder r1 with the
\* next digit brought down, DivTake for the digit c of the quotient.
RECURSIVE DivLimbs(_, _, _, _, _)
DivTake(n, d, i, q, r1, c) == DivLimbs(n, d, i - 1, << c >> \o q, BSub(r1, BMulSmall(d, c)))

DivDigit(n, d, i, q, r1) == DivTake(n, d, i, q, r1, QuotFix(r1, d, QuotGuess(r1, d)))

DivLimbs(n, d, i, q, r) ==
    IF i = 0 \/ Len(q) + Len(r) < 0 THEN [q |-> BTrim(q), r |-> r]
    ELSE DivDigit(n, d, i, q, BTrim(<< n[i] >> \o r))

\* The division of n by d for n >= d, both shifted up by s binary digits:
\* the digits of n above the length of d are the first remainder.
DivStart(n, d) ==
    DivLimbs(n, d, Len(n) - Len(d) + 1, << >>, SubSeq(n, Len(n) - Len(d) + 2, Len(n)))

\* The quotient and the remainder of the shifted numbers, as those of n and
\* d.
DivShifted(qr, s) == [q |-> qr.q, r |-> BShr(qr.r, s)]

\* [q |-> n \div d, r |-> n % d] for d > 0. The quotients of the model are a
\* few digits long.
BDivMod(n, d) ==
    IF BCmp(n, d) < 0 THEN [q |-> << >>, r |-> n]
    ELSE DivShifted(DivStart(BShl(n, BaseBits - DigitBits(d[Len(d)])),
                             BShl(d, BaseBits - DigitBits(d[Len(d)]))),
                    BaseBits - DigitBits(d[Len(d)]))

\* ------------------------------------------------------------------ floats

\* The binary digits of the significand of a float (IEEE 754 binary64).
MantBits == 53

\* The exponent of the smallest positive float, 2^-1074.
MinExp == 0 - 1074

\* Every finite float is below 2^1024.
MaxTop == 1024

\* A finite float is (-1)^neg * m * 2^e with m odd, or m = 0 and e = 0.
Float(neg, m, e) == [kind |-> "fin", neg |-> neg, m |-> m, e |-> e]

FInf(neg) == [kind |-> "inf", neg |-> neg, m |-> << >>, e |-> 0]

FNaN == [kind |-> "nan", neg |-> FALSE, m |-> << >>, e |-> 0]

FIsZero(x) == x.kind = "fin" /\ Len(x.m) = 0

\* The float (-1)^neg * n * 2^e for n > 0 with tz zero binary digits at its
\* least significant end.
FOdd(neg, n, e, tz) == Float(neg, BShr(n, tz), e + tz)

\* The float that is exactly (-1)^neg * n * 2^e, for n * 2^e on the grid of
\* the floats; inf when it is too large.
FExact(neg, n, e) ==
    IF Len(n) = 0 THEN Float(neg, << >>, 0)
    ELSE IF BBitLen(n) + e > MaxTop THEN FInf(neg)
    ELSE FOdd(neg, n, e, BTz(n))

\* n \div 2^k for k > 0, rounded to the nearest natural and a tie to the
\* even one; q is n \div 2^k.
RoundedShift(n, k, q) ==
    IF BBit(n, k - 1) = 1 /\ (BTz(n) < k - 1 \/ BBit(q, 0) = 1) THEN BAdd(q, << 1 >>) ELSE q

\* The float nearest to (-1)^neg * n * 2^e for n > 0, ties to the even
\* significand; u is the weight of the last binary digit a float that large
\* keeps.
FRoundAt(neg, n, e, u) ==
    FExact(neg, IF u <= e THEN n ELSE RoundedShift(n, u - e, BShr(n, u - e)), Max(u, e))

\* The float nearest to (-1)^neg * n * 2^e, ties to the even significand.
FRound(neg, n, e) ==
    IF Len(n) = 0 THEN Float(neg, << >>, 0)
    ELSE FRoundAt(neg, n, e, Max(BBitLen(n) + e - MantBits, MinExp))

\* A quotient with one more binary digit below it, which is 1 when the
\* division left a remainder or when digits of the dividend were lost.
Sticky(qr, lost) ==
    BAdd(BMulSmall(qr.q, 2), IF lost \/ Len(qr.r) > 0 THEN << 1 >> ELSE << >>)

\* The float nearest to (-1)^neg * (n / d) * 2^e, for n > 0 and d > 0, with
\* the quotient taken after n is shifted by s binary digits: up for s >= 0,
\* down for s < 0.
FRoundShifted(neg, n, d, e, s) ==
    IF s >= 0 THEN FRound(neg, Sticky(BDivMod(BShl(n, s), d), FALSE), e - s - 1)
    ELSE FRound(neg, Sticky(BDivMod(BShr(n, 0 - s), d), BTz(n) < 0 - s), e - s - 1)

\* The float nearest to (-1)^neg * (n / d) * 2^e, for d > 0: the quotient
\* is taken to 56 or 57 binary digits, and what is left over is kept as one
\* more digit below them.
FRoundQuot(neg, n, d, e) ==
    IF Len(n) = 0 THEN Float(neg, << >>, 0)
    ELSE FRoundShifted(neg, n, d, e, MantBits + 3 - (BBitLen(n) - BBitLen(d)))

\* float(n) for an int n
Int2Dec(n) == FExact(n < 0, BNat(Abs(n)), 0)

\* The float nearest to (-1)^neg * n * 10^x.
FDecimal(neg, n, x) == FRoundQuot(neg, BMul(n, BPow10(Max(x, 0))), BPow10(Max(0 - x, 0)), 0)

\* The float a decimal literal denotes: m * 10^-e for an int m and e >= 0.
Dec(m, e) == FDecimal(m < 0, BNat(Abs(m)), 0 - e)

DecZero == Int2Dec(0)

\* -x
FNeg(x) == IF x.kind = "nan" THEN x ELSE [x EXCEPT !.neg = ~x.neg]

\* The position above the leading binary digit of a finite x # 0.
FTop(x) == BBitLen(x.m) + x.e

\* -1, 0 or 1 as |a| < |b|, |a| = |b| or |a| > |b|, for a and b not NaN
FCmpAbs(a, b) ==
    IF a.kind = "inf" \/ b.kind = "inf"
    THEN (IF a.kind = b.kind THEN 0 ELSE IF a.kind = "inf" THEN 1 ELSE 0 - 1)
    ELSE IF Len(a.m) = 0 \/ Len(b.m) = 0
    THEN (IF Len(a.m) = Len(b.m) THEN 0 ELSE IF Len(b.m) = 0 THEN 1 ELSE 0 - 1)
    ELSE IF FTop(a) # FTop(b) THEN (IF FTop(a) > FTop(b) THEN 1 ELSE 0 - 1)
    ELSE BCmp(BShl(a.m, a.e - Min(a.e, b.e)), BShl(b.m, b.e - Min(a.e, b.e)))

\* -1, 0 or 1 as x < 0, x = 0 or x > 0, for x not NaN
FSign(x) == IF FIsZero(x) THEN 0 ELSE IF x.neg THEN 0 - 1 ELSE 1

\* a < b
DecLess(a, b) ==
    /\ a.kind # "nan" /\ b.kind # "nan"
    /\ IF FSign(a) # FSign(b) THEN FSign(a) < FSign(b)
       ELSE FSign(a) * FCmpAbs(a, b) < 0

\* a <= b
DecLeq(a, b) == a.kind # "nan" /\ b.kind # "nan" /\ ~DecLess(b, a)

\* (-1)^xneg * x + (-1)^yneg * y for naturals x and y, times 2^e, as a
\* float; an exact zero sum is +0.
FSum(xneg, x, yneg, y, e) ==
    FRound(IF xneg = yneg THEN xneg ELSE (BCmp(x, y) > 0 /\ xneg) \/ (BCmp(x, y) < 0 /\ yneg),
           IF xneg = yneg THEN BAdd(x, y)
           ELSE IF BCmp(x, y) >= 0 THEN BSub(x, y) ELSE BSub(y, x),
           e)

\* a + b
DecAdd(a, b) ==
    IF a.kind = "nan" \/ b.kind = "nan" THEN FNaN
    ELSE IF a.kind = "inf" \/ b.kind = "inf"
    THEN (IF a.kind = "inf" /\ b.kind = "inf" /\ a.neg # b.neg THEN FNaN
          ELSE IF a.kind = "inf" THEN a ELSE b)
    ELSE IF Len(a.m) = 0 /\ Len(b.m) = 0 THEN Float(a.neg /\ b.neg, << >>, 0)
    ELSE IF Len(b.m) = 0 \/ (Len(a.m) > 0 /\ FTop(a) - FTop(b) > MantBits + 11) THEN a
    ELSE IF Len(a.m) = 0 \/ FTop(b) - FTop(a) > MantBits + 11 THEN b
    ELSE FSum(a.neg, BShl(a.m, a.e - Min(a.e, b.e)), b.neg, BShl(b.m, b.e - Min(a.e, b.e)),
              Min(a.e, b.e))

\* a - b
DecSub(a, b) == DecAdd(a, FNeg(b))

\* a / b for floats a and b, as numpy divides (no ZeroDivisionError)
FDiv(a, b) ==
    IF a.kind = "nan" \/ b.kind = "nan" THEN FNaN
    ELSE IF a.kind = "inf" THEN (IF b.kind = "inf" THEN FNaN ELSE FInf(a.neg # b.neg))
    ELSE IF b.kind = "inf" THEN Float(a.neg # b.neg, << >>, 0)
    ELSE IF Len(b.m) = 0 THEN (IF Len(a.m) = 0 THEN FNaN ELSE FInf(a.neg # b.neg))
    ELSE FRoundQuot(a.neg # b.neg, a.m, b.m, a.e - b.e)

\* ----------------------------------------------------------------- strings

\* The printable ASCII characters, from the space U+0020 to the tilde U+007E,
\* but for the grave accent U+0060, which no string of the model holds.
Ascii ==
    <<" ", "!", "\"", "#", "$", "%", "&", "'", "(", ")", "*", "+", ",", "-", ".", "/", "0",
      "1", "2", "3", "4", "5", "6", "7", "8", "9", ":", ";", "<", "=", ">", "?", "@", "A", "B",
      "C", "D", "E", "F", "G", "H", "I", "J", "K", "L", "M", "N", "O", "P", "Q", "R", "S", "T",
      "U", "V", "W", "X", "Y", "Z", "[", "\\", "]", "^", "_", "a", "b", "c", "d", "e", "f",
      "g", "h", "i", "j", "k", "l", "m", "n", "o", "p", "q", "r", "s", "t", "u", "v", "w", "x",
      "y", "z", "{", "|", "}", "~">>

\* ord(c) of such a character c
Ord ==
    [c \in { Ascii[i] : i \in 1..Len(Ascii) } |->
        LET i == CHOOSE k \in 1..Len(Ascii) : Ascii[k] = c IN IF i <= 64 THEN 31 + i ELSE 32 + i]

\* The str of an ASCII text given as its characters.
Str(t) == [i \in 1..Len(t) |-> Ord[t[i]]]

\* The code point c is in one of the ranges <<lo, hi>> of rs.
InRanges(c, rs) == \E i \in 1..Len(rs) : rs[i][1] <= c /\ c <= rs[i][2]

IsDigit(c) == Ord["0"] <= c /\ c <= Ord["9"]

DigitValue(c) == c - Ord["0"]

\* The lower case of the characters beyond ASCII that str.lower() maps to
\* one character, as runs <<lo, hi, step, delta>>: the code points lo,
\* lo + step, ..., hi become themselves + delta.
LowerRuns ==
    <<<<192, 214, 1, 32>>, <<216, 222, 1, 32>>, <<256, 302, 2, 1>>, <<306, 310, 2, 1>>,
      <<313, 327, 2, 1>>, <<330, 374, 2, 1>>, <<376, 376, 1, -121>>, <<377, 381, 2, 1>>,
      <<385, 385, 1, 210>>, <<386, 388, 2, 1>>, <<390, 390, 1, 206>>, <<391, 391, 1, 1>>,
      <<393, 394, 1, 205>>, <<395, 395, 1, 1>>, <<398, 398, 1, 79>>, <<399, 399, 1, 202>>,
      <<400, 400, 1, 203>>, <<401, 401, 1, 1>>, <<403, 403, 1, 205>>, <<404, 404, 1, 207>>,
      <<406, 406, 1, 211>>, <<407, 407, 1, 209>>, <<408, 408, 1, 1>>, <<412, 412, 1, 211>>,
      <<413, 413, 1, 213>>, <<415, 415, 1, 214>>, <<416, 420, 2, 1>>, <<422, 422, 1, 218>>,
      <<423, 423, 1, 1>>, <<425, 425, 1, 218>>, <<428, 428, 1, 1>>, <<430, 430, 1, 218>>,
      <<431, 431, 1, 1>>, <<433, 434, 1, 217>>, <<435, 437, 2, 1>>, <<439, 439, 1, 219>>,
      <<440, 440, 1, 1>>, <<444, 444, 1, 1>>, <<452, 452, 1, 2>>, <<453, 453, 1, 1>>,
      <<455, 455, 1, 2>>, <<456, 456, 1, 1>>, <<458, 458, 1, 2>>, <<459, 475, 2, 1>>,
      <<478, 494, 2, 1>>, <<497, 497, 1, 2>>, <<498, 500, 2, 1>>, <<502, 502, 1, -97>>,
      <<503, 503, 1, -56>>, <<504, 542, 2, 1>>, <<544, 544, 1, -130>>, <<546, 562, 2, 1>>,
      <<570, 570, 1, 10795>>, <<571, 571, 1, 1>>, <<573, 573, 1, -163>>,
      <<574, 574, 1, 10792>>, <<577, 577, 1, 1>>, <<579, 579, 1, -195>>, <<580, 580, 1, 69>>,
      <<581, 581, 1, 71>>, <<582, 590, 2, 1>>, <<880, 882, 2, 1>>, <<886, 886, 1, 1>>,
      <<895, 895, 1, 116>>, <<902, 902, 1, 38>>, <<904, 906, 1, 37>>, <<908, 908, 1, 64>>,
      <<910, 911, 1, 63>>, <<913, 929, 1, 32>>, <<931, 939, 1, 32>>, <<975, 975, 1, 8>>,
      <<984, 1006, 2, 1>>, <<1012, 1012, 1, -60>>, <<1015, 1015, 1, 1>>, <<1017, 1017, 1, -7>>,
      <<1018, 1018, 1, 1>>, <<1021, 1023, 1, -130>>, <<1024, 1039, 1, 80>>,
      <<1040, 1071, 1, 32>>, <<1120, 1152, 2, 1>>, <<1162, 1214, 2, 1>>, <<1216, 1216, 1, 15>>,
      <<1217, 1229, 2, 1>>, <<1232, 1326, 2, 1>>, <<1329, 1366, 1, 48>>,
      <<4256, 4293, 1, 7264>>, <<4295, 4295, 1, 7264>>, <<4301, 4301, 1, 7264>>,
      <<5024, 5103, 1, 38864>>, <<5104, 5109, 1, 8>>, <<7312, 7354, 1, -3008>>,
      <<7357, 7359, 1, -3008>>, <<7680, 7828, 2, 1>>, <<7838, 7838, 1, -7615>>,
      <<7840, 7934, 2, 1>>, <<7944, 7951, 1, -8>>, <<7960, 7965, 1, -8>>,
      <<7976, 7983, 1, -8>>, <<7992, 7999, 1, -8>>, <<8008, 8013, 1, -8>>,
      <<8025, 8031, 2, -8>>, <<8040, 8047, 1, -8>>, <<8072, 8079, 1, -8>>,
      <<8088, 8095, 1, -8>>, <<8104, 8111, 1, -8>>, <<8120, 8121, 1, -8>>,
      <<8122, 8123, 1, -74>>, <<8124, 8124, 1, -9>>, <<8136, 8139, 1, -86>>,
      <<8140, 8140, 1, -9>>, <<8152, 8153, 1, -8>>, <<8154, 8155, 1, -100>>,
      <<8168, 8169, 1, -8>>, <<8170, 8171, 1, -112>>, <<8172, 8172, 1, -7>>,
      <<8184, 8185, 1, -128>>, <<8186, 8187, 1, -126>>, <<8188, 8188, 1, -9>>,
      <<8486, 8486, 1, -7517>>, <<8490, 8490, 1, -8383>>, <<8491, 8491, 1, -8262>>,
      <<8498, 8498, 1, 28>>, <<8544, 8559, 1, 16>>, <<8579, 8579, 1, 1>>,
      <<9398, 9423, 1, 26>>, <<11264, 11311, 1, 48>>, <<11360, 11360, 1, 1>>,
      <<11362, 11362, 1, -10743>>, <<11363, 11363, 1, -3814>>, <<11364, 11364, 1, -10727>>,
      <<11367, 11371, 2, 1>>, <<11373, 11373, 1, -10780>>, <<11374, 11374, 1, -10749>>,
      <<11375, 11375, 1, -10783>>, <<11376, 11376, 1, -10782>>, <<11378, 11378, 1, 1>>,
      <<11381, 11381, 1, 1>>, <<11390, 11391, 1, -10815>>, <<11392, 11490, 2, 1>>,
      <<11499, 11501, 2, 1>>, <<11506, 11506, 1, 1>>, <<42560, 42604, 2, 1>>,
      <<42624, 42650, 2, 1>>, <<42786, 42798, 2, 1>>, <<42802, 42862, 2, 1>>,
      <<42873, 42875, 2, 1>>, <<42877, 42877, 1, -35332>>, <<42878, 42886, 2, 1>>,
      <<42891, 42891, 1, 1>>, <<42893, 42893, 1, -42280>>, <<42896, 42898, 2, 1>>,
      <<42902, 42920, 2, 1>>, <<42922, 42922, 1, -42308>>, <<42923, 42923, 1, -42319>>,
      <<42924, 42924, 1, -42315>>, <<42925, 42925, 1, -42305>>, <<42926, 42926, 1, -42308>>,
      <<42928, 42928, 1, -42258>>, <<42929, 42929, 1, -42282>>, <<42930, 42930, 1, -42261>>,
      <<42931, 42931, 1, 928>>, <<42932, 42946, 2, 1>>, <<42948, 42948, 1, -48>>,
      <<42949, 42949, 1, -42307>>, <<42950, 42950, 1, -35384>>, <<42951, 42953, 2, 1>>,
      <<42960, 42960, 1, 1>>, <<42966, 42968, 2, 1>>, <<42997, 42997, 1, 1>>,
      <<65313, 65338, 1, 32>>, <<66560, 66599, 1, 40>>, <<66736, 66771, 1, 40>>,
      <<66928, 66964, 2, 39>>, <<66929, 66937, 2, 39>>, <<66941, 66953, 2, 39>>,
      <<66957, 66961, 2, 39>>, <<66965, 66965, 1, 39>>, <<68736, 68786, 1, 64>>,
      <<71840, 71871, 1, 32>>, <<93760, 93791, 1, 32>>, <<125184, 125217, 1, 34>>>>

\* The case-ignorable characters, as ranges <<lo, hi>> of code points.
CaseIgnorable ==
    <<<<39, 39>>, <<46, 46>>, <<58, 58>>, <<94, 94>>, <<96, 96>>, <<168, 168>>, <<173, 173>>,
      <<175, 175>>, <<180, 180>>, <<183, 184>>, <<688, 879>>, <<884, 885>>, <<890, 890>>,
      <<900, 901>>, <<903, 903>>, <<1155, 1161>>, <<1369, 1369>>, <<1375, 1375>>,
      <<1425, 1469>>, <<1471, 1471>>, <<1473, 1474>>, <<1476, 1477>>, <<1479, 1479>>,
      <<1524, 1524>>, <<1536, 1541>>, <<1552, 1562>>, <<1564, 1564>>, <<1600, 1600>>,
      <<1611, 1631>>, <<1648, 1648>>, <<1750, 1757>>, <<1759, 1768>>, <<1770, 1773>>,
      <<1807, 1807>>, <<1809, 1809>>, <<1840, 1866>>, <<1958, 1968>>, <<2027, 2037>>,
      <<2042, 2042>>, <<2045, 2045>>, <<2070, 2093>>, <<2137, 2139>>, <<2184, 2184>>,
      <<2192, 2193>>, <<2200, 2207>>, <<2249, 2306>>, <<2362, 2362>>, <<2364, 2364>>,
      <<2369, 2376>>, <<2381, 2381>>, <<2385, 2391>>, <<2402, 2403>>, <<2417, 2417>>,
      <<2433, 2433>>, <<2492, 2492>>, <<2497, 2500>>, <<2509, 2509>>, <<2530, 2531>>,
      <<2558, 2558>>, <<2561, 2562>>, <<2620, 2620>>, <<2625, 2626>>, <<2631, 2632>>,
      <<2635, 2637>>, <<2641, 2641>>, <<2672, 2673>>, <<2677, 2677>>, <<2689, 2690>>,
      <<2748, 2748>>, <<2753, 2757>>, <<2759, 2760>>, <<2765, 2765>>, <<2786, 2787>>,
      <<2810, 2815>>, <<2817, 2817>>, <<2876, 2876>>, <<2879, 2879>>, <<2881, 2884>>,
      <<2893, 2893>>, <<2901, 2902>>, <<2914, 2915>>, <<2946, 2946>>, <<3008, 3008>>,
      <<3021, 3021>>, <<3072, 3072>>, <<3076, 3076>>, <<3132, 3132>>, <<3134, 3136>>,
      <<3142, 3144>>, <<3146, 3149>>, <<3157, 3158>>, <<3170, 3171>>, <<3201, 3201>>,
      <<3260, 3260>>, <<3263, 3263>>, <<3270, 3270>>, <<3276, 3277>>, <<3298, 3299>>,
      <<3328, 3329>>, <<3387, 3388>>, <<3393, 3396>>, <<3405, 3405>>, <<3426, 3427>>,
      <<3457, 3457>>, <<3530, 3530>>, <<3538, 3540>>, <<3542, 3542>>, <<3633, 3633>>,
      <<3636, 3642>>, <<3654, 3662>>, <<3761, 3761>>, <<3764, 3772>>, <<3782, 3782>>,
      <<3784, 3789>>, <<3864, 3865>>, <<3893, 3893>>, <<3895, 3895>>, <<3897, 3897>>,
      <<3953, 3966>>, <<3968, 3972>>, <<3974, 3975>>, <<3981, 3991>>, <<3993, 4028>>,
      <<4038, 4038>>, <<4141, 4144>>, <<4146, 4151>>, <<4153, 4154>>, <<4157, 4158>>,
      <<4184, 4185>>, <<4190, 4192>>, <<4209, 4212>>, <<4226, 4226>>, <<4229, 4230>>,
      <<4237, 4237>>, <<4253, 4253>>, <<4348, 4348>>, <<4957, 4959>>, <<5906, 5908>>,
      <<5938, 5939>>, <<5970, 5971>>, <<6002, 6003>>, <<6068, 6069>>, <<6071, 6077>>,
      <<6086, 6086>>, <<6089, 6099>>, <<6103, 6103>>, <<6109, 6109>>, <<6155, 6159>>,
      <<6211, 6211>>, <<6277, 6278>>, <<6313, 6313>>, <<6432, 6434>>, <<6439, 6440>>,
      <<6450, 6450>>, <<6457, 6459>>, <<6679, 6680>>, <<6683, 6683>>, <<6742, 6742>>,
      <<6744, 6750>>, <<6752, 6752>>, <<6754, 6754>>, <<6757, 6764>>, <<6771, 6780>>,
      <<6783, 6783>>, <<6823, 6823>>, <<6832, 6862>>, <<6912, 6915>>, <<6964, 6964>>,
      <<6966, 6970>>, <<6972, 6972>>, <<6978, 6978>>, <<7019, 7027>>, <<7040, 7041>>,
      <<7074, 7077>>, <<7080, 7081>>, <<7083, 7085>>, <<7142, 7142>>, <<7144, 7145>>,
      <<7149, 7149>>, <<7151, 7153>>, <<7212, 7219>>, <<7222, 7223>>, <<7288, 7293>>,
      <<7376, 7378>>, <<7380, 7392>>, <<7394, 7400>>, <<7405, 7405>>, <<7412, 7412>>,
      <<7416, 7417>>, <<7468, 7530>>, <<7544, 7544>>, <<7579, 7679>>, <<8125, 8125>>,
      <<8127, 8129>>, <<8141, 8143>>, <<8157, 8159>>, <<8173, 8175>>, <<8189, 8190>>,
      <<8203, 8207>>, <<8216, 8217>>, <<8228, 8228>>, <<8231, 8231>>, <<8234, 8238>>,
      <<8288, 8292>>, <<8294, 8303>>, <<8305, 8305>>, <<8319, 8319>>, <<8336, 8348>>,
      <<8400, 8432>>, <<11388, 11389>>, <<11503, 11505>>, <<11631, 11631>>, <<11647, 11647>>,
      <<11744, 11775>>, <<11823, 11823>>, <<12293, 12293>>, <<12330, 12333>>, <<12337, 12341>>,
      <<12347, 12347>>, <<12441, 12446>>, <<12540, 12542>>, <<40981, 40981>>, <<42232, 42237>>,
      <<42508, 42508>>, <<42607, 42610>>, <<42612, 42621>>, <<42623, 42623>>, <<42652, 42655>>,
      <<42736, 42737>>, <<42752, 42785>>, <<42864, 42864>>, <<42888, 42890>>, <<42994, 42996>>,
      <<43000, 43001>>, <<43010, 43010>>, <<43014, 43014>>, <<43019, 43019>>, <<43045, 43046>>,
      <<43052, 43052>>, <<43204, 43205>>, <<43232, 43249>>, <<43263, 43263>>, <<43302, 43309>>,
      <<43335, 43345>>, <<43392, 43394>>, <<43443, 43443>>, <<43446, 43449>>, <<43452, 43453>>,
      <<43471, 43471>>, <<43493, 43494>>, <<43561, 43566>>, <<43569, 43570>>, <<43573, 43574>>,
      <<43587, 43587>>, <<43596, 43596>>, <<43632, 43632>>, <<43644, 43644>>, <<43696, 43696>>,
      <<43698, 43700>>, <<43703, 43704>>, <<43710, 43711>>, <<43713, 43713>>, <<43741, 43741>>,
      <<43756, 43757>>, <<43763, 43764>>, <<43766, 43766>>, <<43867, 43871>>, <<43881, 43883>>,
      <<44005, 44005>>, <<44008, 44008>>, <<44013, 44013>>, <<64286, 64286>>, <<64434, 64450>>,
      <<65024, 65039>>, <<65043, 65043>>, <<65056, 65071>>, <<65106, 65106>>, <<65109, 65109>>,
      <<65279, 65279>>, <<65287, 65287>>, <<65294, 65294>>, <<65306, 65306>>, <<65342, 65342>>,
      <<65344, 65344>>, <<65392, 65392>>, <<65438, 65439>>, <<65507, 65507>>, <<65529, 65531>>,
      <<66045, 66045>>, <<66272, 66272>>, <<66422, 66426>>, <<67456, 67461>>, <<67463, 67504>>,
      <<67506, 67514>>, <<68097, 68099>>, <<68101, 68102>>, <<68108, 68111>>, <<68152, 68154>>,
      <<68159, 68159>>, <<68325, 68326>>, <<68900, 68903>>, <<69291, 69292>>, <<69446, 69456>>,
      <<69506, 69509>>, <<69633, 69633>>, <<69688, 69702>>, <<69744, 69744>>, <<69747, 69748>>,
      <<69759, 69761>>, <<69811, 69814>>, <<69817, 69818>>, <<69821, 69821>>, <<69826, 69826>>,
      <<69837, 69837>>, <<69888, 69890>>, <<69927, 69931>>, <<69933, 69940>>, <<70003, 70003>>,
      <<70016, 70017>>, <<70070, 70078>>, <<70089, 70092>>, <<70095, 70095>>, <<70191, 70193>>,
      <<70196, 70196>>, <<70198, 70199>>, <<70206, 70206>>, <<70367, 70367>>, <<70371, 70378>>,
      <<70400, 70401>>, <<70459, 70460>>, <<70464, 70464>>, <<70502, 70508>>, <<70512, 70516>>,
      <<70712, 70719>>, <<70722, 70724>>, <<70726, 70726>>, <<70750, 70750>>, <<70835, 70840>>,
      <<70842, 70842>>, <<70847, 70848>>, <<70850, 70851>>, <<71090, 71093>>, <<71100, 71101>>,
      <<71103, 71104>>, <<71132, 71133>>, <<71219, 71226>>, <<71229, 71229>>, <<71231, 71232>>,
      <<71339, 71339>>, <<71341, 71341>>, <<71344, 71349>>, <<71351, 71351>>, <<71453, 71455>>,
      <<71458, 71461>>, <<71463, 71467>>, <<71727, 71735>>, <<71737, 71738>>, <<71995, 71996>>,
      <<71998, 71998>>, <<72003, 72003>>, <<72148, 72151>>, <<72154, 72155>>, <<72160, 72160>>,
      <<72193, 72202>>, <<72243, 72248>>, <<72251, 72254>>, <<72263, 72263>>, <<72273, 72278>>,
      <<72281, 72283>>, <<72330, 72342>>, <<72344, 72345>>, <<72752, 72758>>, <<72760, 72765>>,
      <<72767, 72767>>, <<72850, 72871>>, <<72874, 72880>>, <<72882, 72883>>, <<72885, 72886>>,
      <<73009, 73014>>, <<73018, 73018>>, <<73020, 73021>>, <<73023, 73029>>, <<73031, 73031>>,
      <<73104, 73105>>, <<73109, 73109>>, <<73111, 73111>>, <<73459, 73460>>, <<78896, 78904>>,
      <<92912, 92916>>, <<92976, 92982>>, <<92992, 92995>>, <<94031, 94031>>, <<94095, 94111>>,
      <<94176, 94177>>, <<94179, 94180>>, <<110576, 110579>>, <<110581, 110587>>,
      <<110589, 110590>>, <<113821, 113822>>, <<113824, 113827>>, <<118528, 118573>>,
      <<118576, 118598>>, <<119143, 119145>>, <<119155, 119170>>, <<119173, 119179>>,
      <<119210, 119213>>, <<119362, 119364>>, <<121344, 121398>>, <<121403, 121452>>,
      <<121461, 121461>>, <<121476, 121476>>, <<121499, 121503>>, <<121505, 121519>>,
      <<122880, 122886>>, <<122888, 122904>>, <<122907, 122913>>, <<122915, 122916>>,
      <<122918, 122922>>, <<123184, 123197>>, <<123566, 123566>>, <<123628, 123631>>,
      <<125136, 125142>>, <<125252, 125259>>, <<127995, 127999>>, <<917505, 917505>>,
      <<917536, 917631>>, <<917760, 917999>>>>

\* The cased characters that are not case-ignorable, as ranges <<lo, hi>>.
Cased ==
    <<<<65, 90>>, <<97, 122>>, <<170, 170>>, <<181, 181>>, <<186, 186>>, <<192, 214>>,
      <<216, 246>>, <<248, 442>>, <<444, 447>>, <<452, 659>>, <<661, 687>>, <<880, 883>>,
      <<886, 887>>, <<891, 893>>, <<895, 895>>, <<902, 902>>, <<904, 906>>, <<908, 908>>,
      <<910, 929>>, <<931, 1013>>, <<1015, 1153>>, <<1162, 1327>>, <<1329, 1366>>,
      <<1376, 1416>>, <<4256, 4293>>, <<4295, 4295>>, <<4301, 4301>>, <<4304, 4346>>,
      <<4349, 4351>>, <<5024, 5109>>, <<5112, 5117>>, <<7296, 7304>>, <<7312, 7354>>,
      <<7357, 7359>>, <<7424, 7467>>, <<7531, 7543>>, <<7545, 7578>>, <<7680, 7957>>,
      <<7960, 7965>>, <<7968, 8005>>, <<8008, 8013>>, <<8016, 8023>>, <<8025, 8025>>,
      <<8027, 8027>>, <<8029, 8029>>, <<8031, 8061>>, <<8064, 8116>>, <<8118, 8124>>,
      <<8126, 8126>>, <<8130, 8132>>, <<8134, 8140>>, <<8144, 8147>>, <<8150, 8155>>,
      <<8160, 8172>>, <<8178, 8180>>, <<8182, 8188>>, <<8450, 8450>>, <<8455, 8455>>,
      <<8458, 8467>>, <<8469, 8469>>, <<8473, 8477>>, <<8484, 8484>>, <<8486, 8486>>,
      <<8488, 8488>>, <<8490, 8493>>, <<8495, 8500>>, <<8505, 8505>>, <<8508, 8511>>,
      <<8517, 8521>>, <<8526, 8526>>, <<8544, 8575>>, <<8579, 8580>>, <<9398, 9449>>,
      <<11264, 11387>>, <<11390, 11492>>, <<11499, 11502>>, <<11506, 11507>>, <<11520, 11557>>,
      <<11559, 11559>>, <<11565, 11565>>, <<42560, 42605>>, <<42624, 42651>>, <<42786, 42863>>,
      <<42865, 42887>>, <<42891, 42894>>, <<42896, 42954>>, <<42960, 42961>>, <<42963, 42963>>,
      <<42965, 42969>>, <<42997, 42998>>, <<43002, 43002>>, <<43824, 43866>>, <<43872, 43880>>,
      <<43888, 43967>>, <<64256, 64262>>, <<64275, 64279>>, <<65313, 65338>>, <<65345, 65370>>,
      <<66560, 66639>>, <<66736, 66771>>, <<66776, 66811>>, <<66928, 66938>>, <<66940, 66954>>,
      <<66956, 66962>>, <<66964, 66965>>, <<66967, 66977>>, <<66979, 66993>>, <<66995, 67001>>,
      <<67003, 67004>>, <<68736, 68786>>, <<68800, 68850>>, <<71840, 71903>>, <<93760, 93823>>,
      <<119808, 119892>>, <<119894, 119964>>, <<119966, 119967>>, <<119970, 119970>>,
      <<119973, 119974>>, <<119977, 119980>>, <<119982, 119993>>, <<119995, 119995>>,
      <<119997, 120003>>, <<120005, 120069>>, <<120071, 120074>>, <<120077, 120084>>,
      <<120086, 120092>>, <<120094, 120121>>, <<120123, 120126>>, <<120128, 120132>>,
      <<120134, 120134>>, <<120138, 120144>>, <<120146, 120485>>, <<120488, 120512>>,
      <<120514, 120538>>, <<120540, 120570>>, <<120572, 120596>>, <<120598, 120628>>,
      <<120630, 120654>>, <<120656, 120686>>, <<120688, 120712>>, <<120714, 120744>>,
      <<120746, 120770>>, <<120772, 120779>>, <<122624, 122633>>, <<122635, 122654>>,
      <<125184, 125251>>, <<127280, 127305>>, <<127312, 127337>>, <<127344, 127369>>>>

InRun(c, run) == run[1] <= c /\ c <= run[2] /\ (c - run[1]) % run[3] = 0

\* The lower case of a character that has one of a single character and is
\* not the capital sigma.
LowerChar(c) ==
    IF c < 128 THEN (IF Ord["A"] <= c /\ c <= Ord["Z"] THEN c + 32 ELSE c)
    ELSE IF \E i \in 1..Len(LowerRuns) : InRun(c, LowerRuns[i])
    THEN c + LowerRuns[CHOOSE i \in 1..Len(LowerRuns) : InRun(c, LowerRuns[i])][4]
    ELSE c

\* The capital sigma s[i] is the last letter of a word: a cased character
\* comes before it and none after it, the case-ignorable ones being skipped.
FinalSigma(s, i) ==
    LET before == { j \in 1..(i - 1) : ~InRanges(s[j], CaseIgnorable) }
        after  == { j \in (i + 1)..Len(s) : ~InRanges(s[j], CaseIgnorable) }
    IN  /\ before # {}
        /\ InRanges(s[CHOOSE j \in before : \A k \in before : k <= j], Cased)
        /\ after = {} \/ ~InRanges(s[CHOOSE j \in after : \A k \in after : j <= k], Cased)

\* The lower case of s[i] when it is a single character: the capital sigma
\* U+03A3 becomes the final sigma U+03C2 at the end of a word and the sigma
\* U+03C3 elsewhere.
LowerAt(s, i) ==
    IF s[i] = 931 THEN (IF FinalSigma(s, i) THEN 962 ELSE 963) ELSE LowerChar(s[i])

\* sep.join(parts[lo..hi])
RECURSIVE Flat(_, _, _, _)
Flat(parts, sep, lo, hi) ==
    IF lo > hi THEN << >>
    ELSE IF lo = hi THEN parts[lo]
    ELSE Flat(parts, sep, lo, (lo + hi) \div 2) \o sep
         \o Flat(parts, sep, ((lo + hi) \div 2) + 1, hi)

\* str.lower(): the capital I with a dot above, U+0130, becomes the two
\* characters i and U+0307.
Lower(s) ==
    IF \A i \in 1..Len(s) : s[i] # 304 THEN [i \in 1..Len(s) |-> LowerAt(s, i)]
    ELSE Flat([i \in 1..Len(s) |-> IF s[i] = 304 THEN << 105, 775 >> ELSE << LowerAt(s, i) >>],
              << >>, 1, Len(s))

\* needle in hay
Contains(hay, needle) ==
    \E i \in 1..(Len(hay) - Len(needle) + 1) :
        SubSeq(hay, i, i + Len(needle) - 1) = needle

\* s.replace(c, "")
Remove(s, c) == SelectSeq(s, LAMBDA x : x # c)

\* s.replace(c, d) for single characters
Replace(s, c, d) == [i \in 1..Len(s) |-> IF s[i] = c THEN d ELSE s[i]]

\* " ".join(cells)
RECURSIVE Join(_)
Join(cells) ==
    IF Len(cells) = 0 THEN << >>
    ELSE IF Len(cells) = 1 THEN cells[1]
    ELSE cells[1] \o << Ord[" "] >> \o Join(Tail(cells))

\* The white space beyond ASCII that float() reads as a space, as ranges
\* <<lo, hi>> of code points.
Spaces ==
    <<<<133, 133>>, <<160, 160>>, <<5760, 5760>>, <<8192, 8202>>, <<8232, 8233>>,
      <<8239, 8239>>, <<8287, 8287>>, <<12288, 12288>>>>

\* The zeros beyond ASCII of the decimal digits float() reads: the digits 0
\* to 9 of a script are ten code points in a row.
DigitZeros ==
    <<1632, 1776, 1984, 2406, 2534, 2662, 2790, 2918, 3046, 3174, 3302, 3430, 3558, 3664, 3792,
      3872, 4160, 4240, 6112, 6160, 6470, 6608, 6784, 6800, 6992, 7088, 7232, 7248, 42528,
      43216, 43264, 43472, 43504, 43600, 44016, 65296, 66720, 68912, 69734, 69872, 69942,
      70096, 70384, 70736, 70864, 71248, 71360, 71472, 71904, 72016, 72784, 73040, 73120,
      92768, 92864, 93008, 120782, 120792, 120802, 120812, 120822, 123200, 123632, 125264,
      130032>>

IsDecimal(c) == \E i \in 1..Len(DigitZeros) : DigitZeros[i] <= c /\ c <= DigitZeros[i] + 9

\* The ASCII character float() reads in place of the character c: a space
\* for white space, the ASCII digit for a decimal digit, and a question
\* mark, which is no part of a number, for any other character beyond ASCII.
ToAsciiChar(c) ==
    IF c < 127 THEN c
    ELSE IF InRanges(c, Spaces) THEN Ord[" "]
    ELSE IF IsDecimal(c)
    THEN Ord["0"] + c - DigitZeros[CHOOSE i \in 1..Len(DigitZeros) :
                                       DigitZeros[i] <= c /\ c <= DigitZeros[i] + 9]
    ELSE Ord["?"]

ToAscii(s) == [i \in 1..Len(s) |-> ToAsciiChar(s[i])]

\* The ASCII white space float() removes around a number: the space and
\* \t, \n, \v, \f, \r.
Whitespace == { Ord[" "] } \cup 9..13

\* s without the white space around it
Strip(s) ==
    LET ink == { i \in 1..Len(s) : s[i] \notin Whitespace }
    IN  IF ink = {} THEN << >>
        ELSE SubSeq(s, CHOOSE i \in ink : \A j \in ink : i <= j,
                       CHOOSE i \in ink : \A j \in ink : j <= i)

AllDigits(s) == \A i \in 1..Len(s) : IsDigit(s[i])

\* The natural the decimal digits s[lo..hi] write.
RECURSIVE DigitsValue(_, _, _)
DigitsValue(s, lo, hi) ==
    IF lo > hi THEN << >>
    ELSE IF lo = hi THEN BNat(DigitValue(s[lo]))
    ELSE BAdd(BMul(DigitsValue(s, lo, (lo + hi) \div 2), BPow10(hi - ((lo + hi) \div 2))),
              DigitsValue(s, ((lo + hi) \div 2) + 1, hi))

\* The natural the decimal digits s[1..i] write, as an integer.
RECURSIVE SmallDigits(_, _)
SmallDigits(s, i) == IF i = 0 THEN 0 ELSE 10 * SmallDigits(s, i - 1) + DigitValue(s[i])

\* The natural the decimal digits s write as an integer, 10^9 when there
\* are more than 9 of them after the leading zeros.
SmallValue(s) ==
    LET nz == { i \in 1..Len(s) : s[i] # Ord["0"] }
        t  == IF nz = {} THEN << >> ELSE SubSeq(s, CHOOSE i \in nz : \A j \in nz : i <= j, Len(s))
    IN  IF Len(t) > 9 THEN 1000000000 ELSE SmallDigits(t, Len(t))

\* The position of the first character of s that is in cs, Len(s) + 1 when
\* there is none.
First(s, cs) ==
    IF \A i \in 1..Len(s) : s[i] \notin cs THEN Len(s) + 1
    ELSE CHOOSE i \in 1..Len(s) : s[i] \in cs /\ \A j \in 1..(i - 1) : s[j] \notin cs

IsNegative(s) == Len(s) > 0 /\ s[1] = Ord["-"]

\* s without the sign it may start with
Unsigned(s) == IF Len(s) > 0 /\ s[1] \in { Ord["+"], Ord["-"] } THEN Tail(s) ELSE s

\* The float nearest to (-1)^neg * n * 10^x for a natural n that sig
\* decimal digits write: what is above every float is inf, what is below
\* half the smallest one is 0.
FScaled(neg, n, x, sig) ==
    IF Len(n) = 0 THEN Float(neg, << >>, 0)
    ELSE IF x > 400 THEN FInf(neg)
    ELSE IF x + sig < 0 - 400 THEN Float(neg, << >>, 0)
    ELSE FDecimal(neg, n, x)

\* The float of the digits ds of a mantissa without its point, times 10^x.
ParseDigits(neg, ds, x) ==
    IF Len(ds) = 0 \/ ~AllDigits(ds) THEN None
    ELSE Some(FScaled(neg, DigitsValue(ds, 1, Len(ds)), x, Len(ds)))

\* The float of a mantissa, digits with at most one point, times 10^x.
ParseMantissa(neg, mant, x) ==
    ParseDigits(neg,
                SubSeq(mant, 1, First(mant, { Ord["."] }) - 1) \o SubSeq(mant, First(mant, { Ord["."] }) + 1, Len(mant)),
                x - Max(Len(mant) - First(mant, { Ord["."] }), 0))

\* The int the text of an exponent denotes.
Exponent(ex) == IF IsNegative(ex) THEN 0 - SmallValue(Unsigned(ex)) ELSE SmallValue(Unsigned(ex))

\* The float of a mantissa and an optional exponent after the e at p.
ParseExponent(neg, t, p) ==
    IF p <= Len(t) /\ (Len(Unsigned(SubSeq(t, p + 1, Len(t)))) = 0
                       \/ ~AllDigits(Unsigned(SubSeq(t, p + 1, Len(t)))))
    THEN None
    ELSE ParseMantissa(neg, SubSeq(t, 1, p - 1),
                       IF p > Len(t) THEN 0 ELSE Exponent(SubSeq(t, p + 1, Len(t))))

\* float() of an unsigned text with no white space around it, for the sign
\* neg read before it: the digits with at most one point, then an optional
\* exponent; an underscore may stand between two digits. None stands for
\* ValueError.
ParseUnsigned(neg, s) ==
    IF \E i \in 1..Len(s) :
           s[i] = Ord["_"] /\ ~(i > 1 /\ i < Len(s) /\ IsDigit(s[i - 1]) /\ IsDigit(s[i + 1]))
    THEN None
    ELSE ParseExponent(neg, Remove(s, Ord["_"]), First(Remove(s, Ord["_"]), { Ord["e"], Ord["E"] }))

\* The name of a float that is no number, whatever the case of its letters:
\* "inf", "infinity" or "nan", and "" for any other text.
SpecialName(t) ==
    LET low == [i \in 1..Len(t) |-> IF Ord["A"] <= t[i] /\ t[i] <= Ord["Z"] THEN t[i] + 32 ELSE t[i]]
    IN  IF low \in { Str(<<"i", "n", "f">>), Str(<<"i", "n", "f", "i", "n", "i", "t", "y">>) }
        THEN "inf"
        ELSE IF low = Str(<<"n", "a", "n">>) THEN "nan"
        ELSE ""

\* float(t) for an ASCII text t with no white space around it.
ParseStripped(t) ==
    IF SpecialName(Unsigned(t)) = "inf" THEN Some(FInf(IsNegative(t)))
    ELSE IF SpecialName(Unsigned(t)) = "nan" THEN Some(FNaN)
    ELSE ParseUnsigned(IsNegative(t), Unsigned(t))

\* float(s) for a str s. None stands for ValueError.
ParseFloat(s) == ParseStripped(Strip(ToAscii(s)))

\* ------------------------------------------------------------ float to str

\* The decimal digits of a natural n < 2^31: d of them.
NatDigits(n, d) == [i \in 1..d |-> Ord["0"] + ((n \div (10 ^ (d - i))) % 10)]

NatToChars(n) == NatDigits(n, 1 + Cardinality({ d \in 1..9 : n >= 10 ^ d }))

\* The four decimal digits of a natural n < 10^4.
Chunk(n) ==
    << Ord["0"] + (n \div 1000), Ord["0"] + ((n \div 100) % 10),
       Ord["0"] + ((n \div 10) % 10), Ord["0"] + (n % 10) >>

\* The decimal digits of a natural of any size, four at a time from the
\* least significant end: st.n is what is left of it and st.chars are the
\* digits taken off. PeelOne takes four off, qr being st.n divided by 10^4,
\* and Peel(st, k) takes four off 2^k times, or until nothing is left.
RECURSIVE Peel(_, _)
PeelOne(st, qr) == [n |-> qr.q, chars |-> Chunk(qr.r) \o st.chars]

Peel(st, k) ==
    IF Len(st.n) = 0 THEN st
    ELSE IF k = 0 THEN PeelOne(st, BDivSmall(st.n, 10000))
    ELSE Peel(Peel(st, k - 1), k - 1)

\* The digits cs without the zeros in front; "0" when they are all zeros.
NoLeadingZeros(cs) ==
    IF \A i \in 1..Len(cs) : cs[i] = Ord["0"] THEN << Ord["0"] >>
    ELSE SubSeq(cs, CHOOSE i \in 1..Len(cs) : cs[i] # Ord["0"] /\ \A j \in 1..(i - 1) : cs[j] = Ord["0"],
                Len(cs))

\* The decimal digits of a natural n of any size; a number of d digits in
\* base Base has fewer than 2 * d groups of four decimal digits.
BigToChars(n) ==
    IF Len(n) <= 2 THEN NatToChars(Limb(n, 1) + Limb(n, 2) * Base)
    ELSE NoLeadingZeros(Peel([n |-> n, chars |-> << >>], BBitLen(BNat(Len(n))) + 1).chars)

\* str(v) for an int v
IntToChars(v) == (IF v.neg THEN << Ord["-"] >> ELSE << >>) \o BigToChars(v.n)

\* The digits of the shortest decimal that float() reads back as x, for the
\* quotients r / s = x scaled by a power of ten into 0.1 .. 1, mp / s and
\* mm / s the half distances to the floats above and below x, and even = the
\* significand of x is even (a decimal half way then reads back as x).
\* ShortestCut is x cut after j digits: qr.q are the digits and qr.r / s is
\* what they leave of x * 10^j; low = the decimal with these digits reads
\* back as x, high = the one with its last digit one up does.
ShortestCutOf(qr, s, mp, mm, even) ==
    [qr   |-> qr,
     low  |-> IF even THEN BCmp(qr.r, mm) <= 0 ELSE BCmp(qr.r, mm) < 0,
     high |-> IF even THEN BCmp(BAdd(qr.r, mp), s) >= 0 ELSE BCmp(BAdd(qr.r, mp), s) > 0]

ShortestCutBy(r, s, mp, mm, even, p) ==
    ShortestCutOf(BDivMod(BMul(r, p), s), s, BMul(mp, p), BMul(mm, p), even)

ShortestCut(r, s, mp, mm, even, j) == ShortestCutBy(r, s, mp, mm, even, BPow10(j))

\* The digits of a cut where the digits end: of the two decimals the one
\* nearer to x when both read back as x, and the even one when they are as
\* near.
ShortestEnd(cut, half) ==
    IF cut.low /\ ~cut.high THEN cut.qr.q
    ELSE IF cut.high /\ ~cut.low THEN BAdd(cut.qr.q, << 1 >>)
    ELSE IF half < 0 \/ (half = 0 /\ Limb(cut.qr.q, 1) % 2 = 0) THEN cut.qr.q
    ELSE BAdd(cut.qr.q, << 1 >>)

ShortestEndOf(cut, s) == BigToChars(ShortestEnd(cut, BCmp(BMulSmall(cut.qr.r, 2), s)))

\* The digits end at the first cut with low or high, which all the longer
\* cuts have as well; 17 digits tell any two floats apart, so that the
\* number n of the digits is never above 17.
ShortestGoesOn(cut) == ~cut.low /\ ~cut.high

ShortestLen(r, s, mp, mm, even) ==
    1 + Cardinality({ j \in 1..16 : ShortestGoesOn(ShortestCut(r, s, mp, mm, even, j)) })

\* The digits of the cut after n digits.
ShortestTake(r, s, mp, mm, even, n) ==
    IF n > 17 THEN << >> ELSE ShortestEndOf(ShortestCut(r, s, mp, mm, even, n), s)

ShortestDigits(r, s, mp, mm, even) ==
    ShortestTake(r, s, mp, mm, even, ShortestLen(r, s, mp, mm, even))

\* The scaling by powers of ten: k is raised until x and the half distance
\* above it, top / s, are below 10^k, then lowered while they are below
\* 10^(k-1).
RECURSIVE ShortestScale(_, _, _, _, _, _)
ShortestFit(r, s, mp, mm, even, k, top) ==
    IF (IF even THEN BCmp(top, s) >= 0 ELSE BCmp(top, s) > 0)
    THEN ShortestScale(r, BMulSmall(s, 10), mp, mm, even, k + 1)
    ELSE IF (IF even THEN BCmp(BMulSmall(top, 10), s) < 0 ELSE BCmp(BMulSmall(top, 10), s) <= 0)
    THEN ShortestScale(BMulSmall(r, 10), s, BMulSmall(mp, 10), BMulSmall(mm, 10), even, k - 1)
    ELSE [digits |-> ShortestDigits(r, s, mp, mm, even), point |-> k]

ShortestScale(r, s, mp, mm, even, k) == ShortestFit(r, s, mp, mm, even, k, BAdd(r, mp))

\* The quotients, brought near the scale 10^k by the powers of ten up and
\* down (one of them is 1).
ShortestTimes(r, s, mp, mm, even, k, up, down) ==
    ShortestScale(BMul(r, up), BMul(s, down), BMul(mp, up), BMul(mm, up), even, k)

\* The quotients in units of 2^(u - 2), for u the weight of the last binary
\* digit of x: the float below x is half as far as the one above when x is a
\* power of two.
ShortestAt(x, u, k) ==
    ShortestTimes(BShl(x.m, (x.e - (u - 2)) + Max(u - 2, 0)),
                  BShl(<< 1 >>, Max(2 - u, 0)),
                  BShl(<< 2 >>, Max(u - 2, 0)),
                  BShl(IF x.m = << 1 >> /\ u > MinExp THEN << 1 >> ELSE << 2 >>, Max(u - 2, 0)),
                  x.e > u, k, BPow10(Max(0 - k, 0)), BPow10(Max(k, 0)))

\* repr's digits of a finite x # 0: [digits, point], x = 0.d1d2... * 10^point;
\* the scaling starts about the decimal exponent of x.
Shortest(x) ==
    ShortestAt(x, Max(FTop(x) - MantBits, MinExp), ((FTop(x) - 1) * 1233) \div 4096)

\* The exponent of repr's scientific notation: a sign and two digits at
\* least.
ExpToChars(n) ==
    (IF n < 0 THEN << Ord["-"] >> ELSE << Ord["+"] >>)
    \o (IF Abs(n) < 10 THEN << Ord["0"] >> ELSE << >>) \o NatToChars(Abs(n))

\* The digits ds of 0.d1d2... * 10^p as repr lays them out: scientific
\* notation from 1e16 up and below 1e-04.
Layout(ds, p) ==
    IF p > 16 \/ p <= 0 - 4
    THEN << ds[1] >> \o (IF Len(ds) > 1 THEN << Ord["."] >> \o Tail(ds) ELSE << >>)
         \o << Ord["e"] >> \o ExpToChars(p - 1)
    ELSE IF p <= 0 THEN Str(<<"0", ".">>) \o [i \in 1..(0 - p) |-> Ord["0"]] \o ds
    ELSE IF p >= Len(ds) THEN ds \o [i \in 1..(p - Len(ds)) |-> Ord["0"]] \o Str(<<".", "0">>)
    ELSE SubSeq(ds, 1, p) \o << Ord["."] >> \o SubSeq(ds, p + 1, Len(ds))

LayoutOf(sh) == Layout(sh.digits, sh.point)

\* str(x) and repr(x) for a float x
NumToChars(x) ==
    IF x.kind = "nan" THEN Str(<<"n", "a", "n">>)
    ELSE IF x.kind = "inf" THEN (IF x.neg THEN << Ord["-"] >> ELSE << >>) \o Str(<<"i", "n", "f">>)
    ELSE IF Len(x.m) = 0 THEN (IF x.neg THEN << Ord["-"] >> ELSE << >>) \o Str(<<"0", ".", "0">>)
    ELSE (IF x.neg THEN << Ord["-"] >> ELSE << >>) \o LayoutOf(Shortest(x))

\* ------------------------------------------------------------------- JSON

JNull == [null |-> TRUE]

JBool(b) == [bool |-> b]

\* A decoded int is (-1)^neg * n for a natural n of any size; 0 is not
\* negative.
JInt(v) == [int |-> v]

\* The int an integer k denotes.
PyInt(k) == [neg |-> k < 0, n |-> BNat(Abs(k))]

JNum(x) == [num |-> x]

JStr(s) == [str |-> s]

JArr(a) == [arr |-> a]

JObj(o) == [obj |-> o]

\* One item of a dict: the key is a str.
Item(key, value) == [key |-> key, value |-> value]

IsNull(j) == "null" \in DOMAIN j

IsBool(j) == "bool" \in DOMAIN j

IsInt(j) == "int" \in DOMAIN j

IsNum(j) == "num" \in DOMAIN j

IsStr(j) == "str" \in DOMAIN j

IsArr(j) == "arr" \in DOMAIN j

IsObj(j) == "obj" \in DOMAIN j

\* key in d
HasKey(j, key) == \E i \in 1..Len(j.obj) : j.obj[i].key = key

\* d[key] for a key that is there
Lookup(j, key) == j.obj[CHOOSE i \in 1..Len(j.obj) : j.obj[i].key = key].value

\* dict.get(key): JSON null and a missing key are both Python's None.
DictGet(j, key) == IF HasKey(j, key) THEN Lookup(j, key) ELSE JNull

\* bool(x) of a decoded JSON value.
Truthy(j) ==
    IF IsNull(j) THEN FALSE
    ELSE IF IsBool(j) THEN j.bool
    ELSE IF IsInt(j) THEN Len(j.int.n) > 0
    ELSE IF IsNum(j) THEN ~FIsZero(j.num)
    ELSE IF IsStr(j) THEN Len(j.str) > 0
    ELSE IF IsArr(j) THEN Len(j.arr) > 0
    ELSE Len(j.obj) > 0

\* The characters str.isprintable() rejects, as ranges <<lo, hi>> of code
\* points.
NonPrintable ==
    <<<<0, 31>>, <<127, 160>>, <<173, 173>>, <<888, 889>>, <<896, 899>>, <<907, 907>>,
      <<909, 909>>, <<930, 930>>, <<1328, 1328>>, <<1367, 1368>>, <<1419, 1420>>,
      <<1424, 1424>>, <<1480, 1487>>, <<1515, 1518>>, <<1525, 1541>>, <<1564, 1564>>,
      <<1757, 1757>>, <<1806, 1807>>, <<1867, 1868>>, <<1970, 1983>>, <<2043, 2044>>,
      <<2094, 2095>>, <<2111, 2111>>, <<2140, 2141>>, <<2143, 2143>>, <<2155, 2159>>,
      <<2191, 2199>>, <<2274, 2274>>, <<2436, 2436>>, <<2445, 2446>>, <<2449, 2450>>,
      <<2473, 2473>>, <<2481, 2481>>, <<2483, 2485>>, <<2490, 2491>>, <<2501, 2502>>,
      <<2505, 2506>>, <<2511, 2518>>, <<2520, 2523>>, <<2526, 2526>>, <<2532, 2533>>,
      <<2559, 2560>>, <<2564, 2564>>, <<2571, 2574>>, <<2577, 2578>>, <<2601, 2601>>,
      <<2609, 2609>>, <<2612, 2612>>, <<2615, 2615>>, <<2618, 2619>>, <<2621, 2621>>,
      <<2627, 2630>>, <<2633, 2634>>, <<2638, 2640>>, <<2642, 2648>>, <<2653, 2653>>,
      <<2655, 2661>>, <<2679, 2688>>, <<2692, 2692>>, <<2702, 2702>>, <<2706, 2706>>,
      <<2729, 2729>>, <<2737, 2737>>, <<2740, 2740>>, <<2746, 2747>>, <<2758, 2758>>,
      <<2762, 2762>>, <<2766, 2767>>, <<2769, 2783>>, <<2788, 2789>>, <<2802, 2808>>,
      <<2816, 2816>>, <<2820, 2820>>, <<2829, 2830>>, <<2833, 2834>>, <<2857, 2857>>,
      <<2865, 2865>>, <<2868, 2868>>, <<2874, 2875>>, <<2885, 2886>>, <<2889, 2890>>,
      <<2894, 2900>>, <<2904, 2907>>, <<2910, 2910>>, <<2916, 2917>>, <<2936, 2945>>,
      <<2948, 2948>>, <<2955, 2957>>, <<2961, 2961>>, <<2966, 2968>>, <<2971, 2971>>,
      <<2973, 2973>>, <<2976, 2978>>, <<2981, 2983>>, <<2987, 2989>>, <<3002, 3005>>,
      <<3011, 3013>>, <<3017, 3017>>, <<3022, 3023>>, <<3025, 3030>>, <<3032, 3045>>,
      <<3067, 3071>>, <<3085, 3085>>, <<3089, 3089>>, <<3113, 3113>>, <<3130, 3131>>,
      <<3141, 3141>>, <<3145, 3145>>, <<3150, 3156>>, <<3159, 3159>>, <<3163, 3164>>,
      <<3166, 3167>>, <<3172, 3173>>, <<3184, 3190>>, <<3213, 3213>>, <<3217, 3217>>,
      <<3241, 3241>>, <<3252, 3252>>, <<3258, 3259>>, <<3269, 3269>>, <<3273, 3273>>,
      <<3278, 3284>>, <<3287, 3292>>, <<3295, 3295>>, <<3300, 3301>>, <<3312, 3312>>,
      <<3315, 3327>>, <<3341, 3341>>, <<3345, 3345>>, <<3397, 3397>>, <<3401, 3401>>,
      <<3408, 3411>>, <<3428, 3429>>, <<3456, 3456>>, <<3460, 3460>>, <<3479, 3481>>,
      <<3506, 3506>>, <<3516, 3516>>, <<3518, 3519>>, <<3527, 3529>>, <<3531, 3534>>,
      <<3541, 3541>>, <<3543, 3543>>, <<3552, 3557>>, <<3568, 3569>>, <<3573, 3584>>,
      <<3643, 3646>>, <<3676, 3712>>, <<3715, 3715>>, <<3717, 3717>>, <<3723, 3723>>,
      <<3748, 3748>>, <<3750, 3750>>, <<3774, 3775>>, <<3781, 3781>>, <<3783, 3783>>,
      <<3790, 3791>>, <<3802, 3803>>, <<3808, 3839>>, <<3912, 3912>>, <<3949, 3952>>,
      <<3992, 3992>>, <<4029, 4029>>, <<4045, 4045>>, <<4059, 4095>>, <<4294, 4294>>,
      <<4296, 4300>>, <<4302, 4303>>, <<4681, 4681>>, <<4686, 4687>>, <<4695, 4695>>,
      <<4697, 4697>>, <<4702, 4703>>, <<4745, 4745>>, <<4750, 4751>>, <<4785, 4785>>,
      <<4790, 4791>>, <<4799, 4799>>, <<4801, 4801>>, <<4806, 4807>>, <<4823, 4823>>,
      <<4881, 4881>>, <<4886, 4887>>, <<4955, 4956>>, <<4989, 4991>>, <<5018, 5023>>,
      <<5110, 5111>>, <<5118, 5119>>, <<5760, 5760>>, <<5789, 5791>>, <<5881, 5887>>,
      <<5910, 5918>>, <<5943, 5951>>, <<5972, 5983>>, <<5997, 5997>>, <<6001, 6001>>,
      <<6004, 6015>>, <<6110, 6111>>, <<6122, 6127>>, <<6138, 6143>>, <<6158, 6158>>,
      <<6170, 6175>>, <<6265, 6271>>, <<6315, 6319>>, <<6390, 6399>>, <<6431, 6431>>,
      <<6444, 6447>>, <<6460, 6463>>, <<6465, 6467>>, <<6510, 6511>>, <<6517, 6527>>,
      <<6572, 6575>>, <<6602, 6607>>, <<6619, 6621>>, <<6684, 6685>>, <<6751, 6751>>,
      <<6781, 6782>>, <<6794, 6799>>, <<6810, 6815>>, <<6830, 6831>>, <<6863, 6911>>,
      <<6989, 6991>>, <<7039, 7039>>, <<7156, 7163>>, <<7224, 7226>>, <<7242, 7244>>,
      <<7305, 7311>>, <<7355, 7356>>, <<7368, 7375>>, <<7419, 7423>>, <<7958, 7959>>,
      <<7966, 7967>>, <<8006, 8007>>, <<8014, 8015>>, <<8024, 8024>>, <<8026, 8026>>,
      <<8028, 8028>>, <<8030, 8030>>, <<8062, 8063>>, <<8117, 8117>>, <<8133, 8133>>,
      <<8148, 8149>>, <<8156, 8156>>, <<8176, 8177>>, <<8181, 8181>>, <<8191, 8207>>,
      <<8232, 8239>>, <<8287, 8303>>, <<8306, 8307>>, <<8335, 8335>>, <<8349, 8351>>,
      <<8385, 8399>>, <<8433, 8447>>, <<8588, 8591>>, <<9255, 9279>>, <<9291, 9311>>,
      <<11124, 11125>>, <<11158, 11158>>, <<11508, 11512>>, <<11558, 11558>>, <<11560, 11564>>,
      <<11566, 11567>>, <<11624, 11630>>, <<11633, 11646>>, <<11671, 11679>>, <<11687, 11687>>,
      <<11695, 11695>>, <<11703, 11703>>, <<11711, 11711>>, <<11719, 11719>>, <<11727, 11727>>,
      <<11735, 11735>>, <<11743, 11743>>, <<11870, 11903>>, <<11930, 11930>>, <<12020, 12031>>,
      <<12246, 12271>>, <<12284, 12288>>, <<12352, 12352>>, <<12439, 12440>>, <<12544, 12548>>,
      <<12592, 12592>>, <<12687, 12687>>, <<12772, 12783>>, <<12831, 12831>>, <<42125, 42127>>,
      <<42183, 42191>>, <<42540, 42559>>, <<42744, 42751>>, <<42955, 42959>>, <<42962, 42962>>,
      <<42964, 42964>>, <<42970, 42993>>, <<43053, 43055>>, <<43066, 43071>>, <<43128, 43135>>,
      <<43206, 43213>>, <<43226, 43231>>, <<43348, 43358>>, <<43389, 43391>>, <<43470, 43470>>,
      <<43482, 43485>>, <<43519, 43519>>, <<43575, 43583>>, <<43598, 43599>>, <<43610, 43611>>,
      <<43715, 43738>>, <<43767, 43776>>, <<43783, 43784>>, <<43791, 43792>>, <<43799, 43807>>,
      <<43815, 43815>>, <<43823, 43823>>, <<43884, 43887>>, <<44014, 44015>>, <<44026, 44031>>,
      <<55204, 55215>>, <<55239, 55242>>, <<55292, 63743>>, <<64110, 64111>>, <<64218, 64255>>,
      <<64263, 64274>>, <<64280, 64284>>, <<64311, 64311>>, <<64317, 64317>>, <<64319, 64319>>,
      <<64322, 64322>>, <<64325, 64325>>, <<64451, 64466>>, <<64912, 64913>>, <<64968, 64974>>,
      <<64976, 65007>>, <<65050, 65055>>, <<65107, 65107>>, <<65127, 65127>>, <<65132, 65135>>,
      <<65141, 65141>>, <<65277, 65280>>, <<65471, 65473>>, <<65480, 65481>>, <<65488, 65489>>,
      <<65496, 65497>>, <<65501, 65503>>, <<65511, 65511>>, <<65519, 65531>>, <<65534, 65535>>,
      <<65548, 65548>>, <<65575, 65575>>, <<65595, 65595>>, <<65598, 65598>>, <<65614, 65615>>,
      <<65630, 65663>>, <<65787, 65791>>, <<65795, 65798>>, <<65844, 65846>>, <<65935, 65935>>,
      <<65949, 65951>>, <<65953, 65999>>, <<66046, 66175>>, <<66205, 66207>>, <<66257, 66271>>,
      <<66300, 66303>>, <<66340, 66348>>, <<66379, 66383>>, <<66427, 66431>>, <<66462, 66462>>,
      <<66500, 66503>>, <<66518, 66559>>, <<66718, 66719>>, <<66730, 66735>>, <<66772, 66775>>,
      <<66812, 66815>>, <<66856, 66863>>, <<66916, 66926>>, <<66939, 66939>>, <<66955, 66955>>,
      <<66963, 66963>>, <<66966, 66966>>, <<66978, 66978>>, <<66994, 66994>>, <<67002, 67002>>,
      <<67005, 67071>>, <<67383, 67391>>, <<67414, 67423>>, <<67432, 67455>>, <<67462, 67462>>,
      <<67505, 67505>>, <<67515, 67583>>, <<67590, 67591>>, <<67593, 67593>>, <<67638, 67638>>,
      <<67641, 67643>>, <<67645, 67646>>, <<67670, 67670>>, <<67743, 67750>>, <<67760, 67807>>,
      <<67827, 67827>>, <<67830, 67834>>, <<67868, 67870>>, <<67898, 67902>>, <<67904, 67967>>,
      <<68024, 68027>>, <<68048, 68049>>, <<68100, 68100>>, <<68103, 68107>>, <<68116, 68116>>,
      <<68120, 68120>>, <<68150, 68151>>, <<68155, 68158>>, <<68169, 68175>>, <<68185, 68191>>,
      <<68256, 68287>>, <<68327, 68330>>, <<68343, 68351>>, <<68406, 68408>>, <<68438, 68439>>,
      <<68467, 68471>>, <<68498, 68504>>, <<68509, 68520>>, <<68528, 68607>>, <<68681, 68735>>,
      <<68787, 68799>>, <<68851, 68857>>, <<68904, 68911>>, <<68922, 69215>>, <<69247, 69247>>,
      <<69290, 69290>>, <<69294, 69295>>, <<69298, 69375>>, <<69416, 69423>>, <<69466, 69487>>,
      <<69514, 69551>>, <<69580, 69599>>, <<69623, 69631>>, <<69710, 69713>>, <<69750, 69758>>,
      <<69821, 69821>>, <<69827, 69839>>, <<69865, 69871>>, <<69882, 69887>>, <<69941, 69941>>,
      <<69960, 69967>>, <<70007, 70015>>, <<70112, 70112>>, <<70133, 70143>>, <<70162, 70162>>,
      <<70207, 70271>>, <<70279, 70279>>, <<70281, 70281>>, <<70286, 70286>>, <<70302, 70302>>,
      <<70314, 70319>>, <<70379, 70383>>, <<70394, 70399>>, <<70404, 70404>>, <<70413, 70414>>,
      <<70417, 70418>>, <<70441, 70441>>, <<70449, 70449>>, <<70452, 70452>>, <<70458, 70458>>,
      <<70469, 70470>>, <<70473, 70474>>, <<70478, 70479>>, <<70481, 70486>>, <<70488, 70492>>,
      <<70500, 70501>>, <<70509, 70511>>, <<70517, 70655>>, <<70748, 70748>>, <<70754, 70783>>,
      <<70856, 70863>>, <<70874, 71039>>, <<71094, 71095>>, <<71134, 71167>>, <<71237, 71247>>,
      <<71258, 71263>>, <<71277, 71295>>, <<71354, 71359>>, <<71370, 71423>>, <<71451, 71452>>,
      <<71468, 71471>>, <<71495, 71679>>, <<71740, 71839>>, <<71923, 71934>>, <<71943, 71944>>,
      <<71946, 71947>>, <<71956, 71956>>, <<71959, 71959>>, <<71990, 71990>>, <<71993, 71994>>,
      <<72007, 72015>>, <<72026, 72095>>, <<72104, 72105>>, <<72152, 72153>>, <<72165, 72191>>,
      <<72264, 72271>>, <<72355, 72367>>, <<72441, 72703>>, <<72713, 72713>>, <<72759, 72759>>,
      <<72774, 72783>>, <<72813, 72815>>, <<72848, 72849>>, <<72872, 72872>>, <<72887, 72959>>,
      <<72967, 72967>>, <<72970, 72970>>, <<73015, 73017>>, <<73019, 73019>>, <<73022, 73022>>,
      <<73032, 73039>>, <<73050, 73055>>, <<73062, 73062>>, <<73065, 73065>>, <<73103, 73103>>,
      <<73106, 73106>>, <<73113, 73119>>, <<73130, 73439>>, <<73465, 73647>>, <<73649, 73663>>,
      <<73714, 73726>>, <<74650, 74751>>, <<74863, 74863>>, <<74869, 74879>>, <<75076, 77711>>,
      <<77811, 77823>>, <<78895, 82943>>, <<83527, 92159>>, <<92729, 92735>>, <<92767, 92767>>,
      <<92778, 92781>>, <<92863, 92863>>, <<92874, 92879>>, <<92910, 92911>>, <<92918, 92927>>,
      <<92998, 93007>>, <<93018, 93018>>, <<93026, 93026>>, <<93048, 93052>>, <<93072, 93759>>,
      <<93851, 93951>>, <<94027, 94030>>, <<94088, 94094>>, <<94112, 94175>>, <<94181, 94191>>,
      <<94194, 94207>>, <<100344, 100351>>, <<101590, 101631>>, <<101641, 110575>>,
      <<110580, 110580>>, <<110588, 110588>>, <<110591, 110591>>, <<110883, 110927>>,
      <<110931, 110947>>, <<110952, 110959>>, <<111356, 113663>>, <<113771, 113775>>,
      <<113789, 113791>>, <<113801, 113807>>, <<113818, 113819>>, <<113824, 118527>>,
      <<118574, 118575>>, <<118599, 118607>>, <<118724, 118783>>, <<119030, 119039>>,
      <<119079, 119080>>, <<119155, 119162>>, <<119275, 119295>>, <<119366, 119519>>,
      <<119540, 119551>>, <<119639, 119647>>, <<119673, 119807>>, <<119893, 119893>>,
      <<119965, 119965>>, <<119968, 119969>>, <<119971, 119972>>, <<119975, 119976>>,
      <<119981, 119981>>, <<119994, 119994>>, <<119996, 119996>>, <<120004, 120004>>,
      <<120070, 120070>>, <<120075, 120076>>, <<120085, 120085>>, <<120093, 120093>>,
      <<120122, 120122>>, <<120127, 120127>>, <<120133, 120133>>, <<120135, 120137>>,
      <<120145, 120145>>, <<120486, 120487>>, <<120780, 120781>>, <<121484, 121498>>,
      <<121504, 121504>>, <<121520, 122623>>, <<122655, 122879>>, <<122887, 122887>>,
      <<122905, 122906>>, <<122914, 122914>>, <<122917, 122917>>, <<122923, 123135>>,
      <<123181, 123183>>, <<123198, 123199>>, <<123210, 123213>>, <<123216, 123535>>,
      <<123567, 123583>>, <<123642, 123646>>, <<123648, 124895>>, <<124903, 124903>>,
      <<124908, 124908>>, <<124911, 124911>>, <<124927, 124927>>, <<125125, 125126>>,
      <<125143, 125183>>, <<125260, 125263>>, <<125274, 125277>>, <<125280, 126064>>,
      <<126133, 126208>>, <<126270, 126463>>, <<126468, 126468>>, <<126496, 126496>>,
      <<126499, 126499>>, <<126501, 126502>>, <<126504, 126504>>, <<126515, 126515>>,
      <<126520, 126520>>, <<126522, 126522>>, <<126524, 126529>>, <<126531, 126534>>,
      <<126536, 126536>>, <<126538, 126538>>, <<126540, 126540>>, <<126544, 126544>>,
      <<126547, 126547>>, <<126549, 126550>>, <<126552, 126552>>, <<126554, 126554>>,
      <<126556, 126556>>, <<126558, 126558>>, <<126560, 126560>>, <<126563, 126563>>,
      <<126565, 126566>>, <<126571, 126571>>, <<126579, 126579>>, <<126584, 126584>>,
      <<126589, 126589>>, <<126591, 126591>>, <<126602, 126602>>, <<126620, 126624>>,
      <<126628, 126628>>, <<126634, 126634>>, <<126652, 126703>>, <<126706, 126975>>,
      <<127020, 127023>>, <<127124, 127135>>, <<127151, 127152>>, <<127168, 127168>>,
      <<127184, 127184>>, <<127222, 127231>>, <<127406, 127461>>, <<127491, 127503>>,
      <<127548, 127551>>, <<127561, 127567>>, <<127570, 127583>>, <<127590, 127743>>,
      <<128728, 128732>>, <<128749, 128751>>, <<128765, 128767>>, <<128884, 128895>>,
      <<128985, 128991>>, <<129004, 129007>>, <<129009, 129023>>, <<129036, 129039>>,
      <<129096, 129103>>, <<129114, 129119>>, <<129160, 129167>>, <<129198, 129199>>,
      <<129202, 129279>>, <<129620, 129631>>, <<129646, 129647>>, <<129653, 129655>>,
      <<129661, 129663>>, <<129671, 129679>>, <<129709, 129711>>, <<129723, 129727>>,
      <<129734, 129743>>, <<129754, 129759>>, <<129768, 129775>>, <<129783, 129791>>,
      <<129939, 129939>>, <<129995, 130031>>, <<130042, 131071>>, <<173792, 173823>>,
      <<177977, 177983>>, <<178206, 178207>>, <<183970, 183983>>, <<191457, 194559>>,
      <<195102, 196607>>, <<201547, 917759>>, <<918000, 1114111>>>>

\* The hexadecimal digit of d < 16.
HexChar(d) == IF d < 10 THEN Ord["0"] + d ELSE Ord["a"] + (d - 10)

\* The n hexadecimal digits of c.
Hex(c, n) == [i \in 1..n |-> HexChar((c \div (16 ^ (n - i))) % 16)]

\* The escape of a character repr does not print: \xhh, \uhhhh or
\* \Uhhhhhhhh by the size of its code point.
Escape(c) ==
    IF c < 256 THEN Str(<<"\\", "x">>) \o Hex(c, 2)
    ELSE IF c < 65536 THEN Str(<<"\\", "u">>) \o Hex(c, 4)
    ELSE Str(<<"\\", "U">>) \o Hex(c, 8)

\* One character of repr(s), for the quote q the text is put in.
ReprChar(c, q) ==
    IF c = Ord["\\"] \/ c = q THEN << Ord["\\"], c >>
    ELSE IF c = 9 THEN Str(<<"\\", "t">>)
    ELSE IF c = 10 THEN Str(<<"\\", "n">>)
    ELSE IF c = 13 THEN Str(<<"\\", "r">>)
    ELSE IF Ord[" "] <= c /\ c < 127 THEN << c >>
    ELSE IF InRanges(c, NonPrintable) THEN Escape(c)
    ELSE << c >>

\* The quote repr(s) puts s in: the double quote when s has a single quote
\* and no double quote, the single quote otherwise.
QuoteOf(s) ==
    IF (\E i \in 1..Len(s) : s[i] = Ord["'"]) /\ (\A i \in 1..Len(s) : s[i] # Ord["\""])
    THEN Ord["\""] ELSE Ord["'"]

Quoted(s, q) == << q >> \o Flat([i \in 1..Len(s) |-> ReprChar(s[i], q)], << >>, 1, Len(s)) \o << q >>

\* repr(s) for a str s
StrRepr(s) == Quoted(s, QuoteOf(s))

\* repr(x) of a decoded JSON value.
RECURSIVE PyRepr(_)
PyRepr(j) ==
    CASE IsNull(j) -> Str(<<"N", "o", "n", "e">>)
      [] IsBool(j) ->
             IF j.bool THEN Str(<<"T", "r", "u", "e">>) ELSE Str(<<"F", "a", "l", "s", "e">>)
      [] IsInt(j) -> IntToChars(j.int)
      [] IsNum(j) -> NumToChars(j.num)
      [] IsStr(j) -> StrRepr(j.str)
      [] IsArr(j) ->
             << Ord["["] >>
             \o Flat([i \in 1..Len(j.arr) |-> PyRepr(j.arr[i])], Str(<<",", " ">>), 1,
                     Len(j.arr))
             \o << Ord["]"] >>
      [] IsObj(j) ->
             << Ord["{"] >>
             \o Flat([i \in 1..Len(j.obj) |->
                          StrRepr(j.obj[i].key) \o Str(<<":", " ">>) \o PyRepr(j.obj[i].value)],
                     Str(<<",", " ">>), 1, Len(j.obj))
             \o << Ord["}"] >>

\* str(x) of a decoded JSON value: a str is itself, anything else prints as
\* its repr.
PyStr(j) == IF IsStr(j) THEN j.str ELSE PyRepr(j)

\* --------------------------------------------------------------- requests

\* timeout=10, in seconds, of every requests.get of the adapters.
RequestTimeout == 10

\* A call requests.get(url, params=..., headers=..., timeout=...); an
\* argument that is not passed is None.
Request(url, params, headers, timeout) ==
    [url |-> url, params |-> params, headers |-> headers, timeout |-> timeout]

\* --------------------------------------------------------------- warnings

Warning(text, arg) == [text |-> text, arg |-> arg]

\* _append_warning(warnings, message)
append_warning(warnings, message) == Append(warnings, message)

\* ------------------------------------------------- exchange page (inputs)

KwAluminium == Str(<<"a", "l", "u", "m", "i", "n", "i", "u", "m">>)

KwCash == Str(<<"c", "a", "s", "h">>)

Kw3Months == Str(<<"3", " ", "m", "o", "n", "t", "h", "s">>)

KwStocks == Str(<<"s", "t", "o", "c", "k", "s">>)

TxtAluminiumCash == Str(<<"A", "l", "u", "m", "i", "n", "i", "u", "m", " ", "C", "a", "s", "h">>)

TxtAluminium3M == Str(<<"A", "l", "u", "m", "i", "n", "i", "u", "m", " ", "3", " ", "m", "o", "n", "t", "h", "s">>)

TxtStocks == Str(<<"L", "M", "E", " ", "s", "t", "o", "c", "k", "s">>)

TxtCopperCash == Str(<<"C", "o", "p", "p", "e", "r", " ", "C", "a", "s", "h">>)

Txt2450 == Str(<<"2", ",", "4", "5", "0">>)

Txt2500 == Str(<<"2", ",", "5", "0", "0">>)

Txt9000 == Str(<<"9", ",", "0", "0", "0">>)

Txt500000 == Str(<<"5", "0", "0", ",", "0", "0", "0">>)

TxtNA == Str(<<"n", "/", "a">>)

\* The rows a table of the page is made of: each is the list of the texts of
\* its th/td cells.
RowSamples ==
    { <<TxtAluminiumCash, Txt2450>>,
      <<TxtAluminium3M, Txt2500>>,
      <<TxtStocks, Txt500000>>,
      <<TxtAluminiumCash, TxtNA>>,
      <<TxtCopperCash, Txt9000>>,
      <<TxtAluminiumCash>>,
      << >> }

TableRows == SeqsUpTo(RowSamples, MaxRows)

Tables == [markdata : BOOLEAN, rows : TableRows]

\* A page holds no table, one table, or a leading table without the
\* markdata class followed by a second table.
Pages ==
    { << >> }
    \cup { << t >> : t \in Tables }
    \cup { << [markdata |-> FALSE, rows |-> r], t >> :
             r \in { << >>, << <<TxtAluminiumCash, Txt2450>> >> }, t \in Tables }

\* The messages of the requests.RequestException a request ends with, by
\* failure class: transport failure, timeout, non-2xx (raise_for_status).
RequestExceptions ==
    { [failure |-> "network",
       exc |-> Str(<<"C", "o", "n", "n", "e", "c", "t", "i", "o", "n", "E", "r", "r", "o", "r">>)],
      [failure |-> "timeout", exc |-> Str(<<"R", "e", "a", "d", "T", "i", "m", "e", "o", "u", "t">>)],
      [failure |-> "http", exc |-> Str(<<"H", "T", "T", "P", "E", "r", "r", "o", "r">>)] }

\* --------------------------------------- get_lme_from_westmetall (adapter)

\* soup.find("table", {"class": "markdata"}) or soup.find("table")
FindTable(page) ==
    LET marked == { i \in 1..Len(page) : page[i].markdata }
    IN  IF marked # {} THEN Some(page[CHOOSE i \in marked : \A j \in marked : i <= j])
        ELSE IF Len(page) > 0 THEN Some(page[1])
        ELSE None

\* float(cells[-1].replace(",", ""))
ParseCell(cells) == ParseFloat(Remove(cells[Len(cells)], Ord[","]))

MatchesCash(cells) ==
    /\ Contains(Lower(Join(cells)), KwAluminium)
    /\ Contains(Lower(Join(cells)), KwCash)
    /\ Len(cells) >= 2

Matches3M(cells) ==
    /\ Contains(Lower(Join(cells)), KwAluminium)
    /\ Contains(Lower(Join(cells)), Kw3Months)
    /\ Len(cells) >= 2

MatchesStocks(cells) ==
    /\ Contains(Lower(Join(cells)), KwStocks)
    /\ Len(cells) >= 2

WarnCash == Warning("Falha ao converter Cash LME a partir do WestMetall.", << >>)

Warn3M == Warning("Falha ao converter 3M LME a partir do WestMetall.", << >>)

WarnStock == Warning("Falha ao converter estoque LME a partir do WestMetall.", << >>)

WarnNoTable == Warning("Tabela principal nao encontrada no WestMetall.", << >>)

WarnWestmetallRequest(exc) == Warning("Erro na requisicao ao WestMetall: {exc}", <<exc>>)

\* One field of one row, for the float parsed its last cell converts to
\* (None when it does not convert): a matching row sets the value when the
\* cell converts and appends the warning (keeping the value) when it does
\* not.
FieldValue(old, matches, parsed) == IF matches /\ ~IsNone(parsed) THEN parsed ELSE old

FieldWarnings(warnings, matches, parsed, warning) ==
    IF matches /\ IsNone(parsed) THEN append_warning(warnings, warning) ELSE warnings

\* The three fields of one row with cells.
RowFields(acc, cells, parsed) ==
    [ cash_usd_t        |-> FieldValue(acc.cash_usd_t, MatchesCash(cells), parsed),
      three_month_usd_t |-> FieldValue(acc.three_month_usd_t, Matches3M(cells), parsed),
      stock_t           |-> FieldValue(acc.stock_t, MatchesStocks(cells), parsed),
      warnings          |->
          FieldWarnings(
              FieldWarnings(
                  FieldWarnings(acc.warnings, MatchesCash(cells), parsed, WarnCash),
                  Matches3M(cells), parsed, Warn3M),
              MatchesStocks(cells), parsed, WarnStock) ]

\* The body of "for row in rows" for one row.
RowStep(acc, cells) == IF Len(cells) = 0 THEN acc ELSE RowFields(acc, cells, ParseCell(cells))

RECURSIVE RowsLoop(_, _)
RowsLoop(acc, rows) ==
    IF Len(rows) = 0 THEN acc ELSE RowsLoop(RowStep(acc, Head(rows)), Tail(rows))

WestmetallEmpty ==
    [cash_usd_t |-> None, three_month_usd_t |-> None, stock_t |-> None, warnings |-> << >>]

\* The adapter on the outcome of its one request: a RequestException, or
\* the page of a 2xx response.
get_lme_from_westmetall(resp) ==
    IF "exc" \in DOMAIN resp
    THEN [WestmetallEmpty EXCEPT !.warnings = append_warning(<< >>, WarnWestmetallRequest(resp.exc))]
    ELSE IF IsNone(FindTable(resp.page))
    THEN [WestmetallEmpty EXCEPT !.warnings = append_warning(<< >>, WarnNoTable)]
    ELSE RowsLoop(WestmetallEmpty, Get(FindTable(resp.page)).rows)

\* The failure class of a page (the taxonomy of the error handling design):
\* no table is a malformed payload; a table none of whose rows names a
\* wanted quantity is an empty dataset; rows that name one but convert to no
\* value are a malformed payload.
PageFailure(page) ==
    IF IsNone(FindTable(page)) THEN "malformed"
    ELSE IF \A i \in 1..Len(Get(FindTable(page)).rows) :
                LET cells == Get(FindTable(page)).rows[i]
                IN  ~(MatchesCash(cells) \/ Matches3M(cells) \/ MatchesStocks(cells))
    THEN "empty"
    ELSE LET r == get_lme_from_westmetall([page |-> page])
         IN  IF IsNone(r.cash_usd_t) /\ IsNone(r.three_month_usd_t) /\ IsNone(r.stock_t)
             THEN "malformed"
             ELSE "none"

WestmetallResponses ==
    RequestExceptions \cup { [failure |-> PageFailure(p), page |-> p] : p \in Pages }

\* ------------------------------------ get_aluminum_from_metalsdev (adapter)

Txt2400 == Str(<<"2", "4", "0", "0">>)

\* The symbol the aggregator asks for.
ALUMINUM == Str(<<"A", "L", "U", "M", "I", "N", "U", "M">>)

KeyPrice == Str(<<"p", "r", "i", "c", "e">>)

KeyData == Str(<<"d", "a", "t", "a">>)

\* os.getenv("METALS_DEV_API_KEY"): unset, set to the empty string, or set.
ApiKeys == { None, Some(<< >>), Some(Str(<<"k", "e", "y">>)) }

\* What response.json() does with a body that is no JSON depends on the
\* installed requests: its JSONDecodeError is a RequestException from 2.27
\* on, and a plain ValueError before.
JsonErrors == { "RequestException", "ValueError" }

\* The message of the JSONDecodeError of requests.
JSONDecodeError ==
    Str(<<"J", "S", "O", "N", "D", "e", "c", "o", "d", "e", "E", "r", "r", "o", "r">>)

\* The outcome of one GET of the spot endpoint: a RequestException, a 2xx
\* body that is no JSON, or the decoded payload.
MetalsDevResponses ==
    RequestExceptions
    \cup { [failure |-> "malformed", not_json |-> e] : e \in JsonErrors }
    \cup { [failure |-> "none", payload |-> JObj(<<Item(KeyPrice, JInt(PyInt(2400)))>>)],
           [failure |-> "none",
            payload |-> JObj(<<Item(KeyData, JObj(<<Item(KeyPrice, JStr(Txt2400))>>))>>)],
           [failure |-> "malformed", payload |-> JObj(<<Item(KeyPrice, JStr(TxtNA))>>)],
           [failure |-> "malformed", payload |-> JObj(<<Item(KeyPrice, JArr(<<JInt(PyInt(2400))>>))>>)],
           [failure |-> "malformed", payload |-> JObj(<<Item(KeyData, JNull)>>)],
           [failure |-> "malformed", payload |-> JArr(<< >>)],
           [failure |-> "empty", payload |-> JObj(<<Item(KeyPrice, JNum(DecZero))>>)],
           [failure |-> "empty", payload |-> JObj(<< >>)] }

WarnNoApiKey == Warning("Variavel de ambiente METALS_DEV_API_KEY nao informada.", << >>)

WarnInvalidPrice(symbol) ==
    Warning("Preco invalido retornado pela Metals.Dev para {symbol}.", <<symbol>>)

WarnNoPrice(symbol) ==
    Warning("Preco nao disponivel na Metals.Dev para {symbol}.", <<symbol>>)

WarnMetalsDevRequest(symbol, exc) ==
    Warning("Erro na Metals.Dev para {symbol}: {exc}", <<symbol, exc>>)

\* The test without the empty string: only an unset variable is missing.
KeyMissingUnsetOnly(api_key) == IsNone(api_key)

\* not api_key
KeyMissing(api_key) == IsNone(api_key) \/ Len(Get(api_key)) = 0

\* float(v) of an int v, for the float x nearest to it: an int too large
\* for a float raises OverflowError.
IntToFloat(x) == IF x.kind = "inf" THEN [raise |-> "OverflowError"] ELSE [ok |-> x]

\* float(s) of a str s, for the float parsed it converts to.
StrToFloat(parsed) == IF IsNone(parsed) THEN [raise |-> "ValueError"] ELSE [ok |-> Get(parsed)]

\* float(x) of a decoded JSON value, as [ok |-> the float] or [raise |-> the
\* exception]: ValueError for a text that is no number, TypeError for None
\* and for a container.
FloatOf(j) ==
    IF IsBool(j) THEN [ok |-> Int2Dec(IF j.bool THEN 1 ELSE 0)]
    ELSE IF IsInt(j) THEN IntToFloat(FRound(j.int.neg, j.int.n, 0))
    ELSE IF IsNum(j) THEN [ok |-> j.num]
    ELSE IF IsStr(j) THEN StrToFloat(ParseFloat(j.str))
    ELSE [raise |-> "TypeError"]

\* payload.get("price") or payload.get("data", {}).get("price"), as
\* [ok |-> the value] or [raise |-> the exception that is not caught].
PriceOf(payload) ==
    IF ~IsObj(payload) THEN [raise |-> "AttributeError"]
    ELSE IF Truthy(DictGet(payload, KeyPrice)) THEN [ok |-> DictGet(payload, KeyPrice)]
    ELSE IF ~HasKey(payload, KeyData) THEN [ok |-> JNull]
    ELSE IF ~IsObj(Lookup(payload, KeyData)) THEN [raise |-> "AttributeError"]
    ELSE [ok |-> DictGet(Lookup(payload, KeyData), KeyPrice)]

\* results[symbol] = float(price) under "except (TypeError, ValueError)", for
\* converted = float(price): any other exception escapes.
PriceStep(acc, symbol, converted) ==
    IF "ok" \in DOMAIN converted THEN [acc EXCEPT !.values[symbol] = Some(converted.ok)]
    ELSE IF converted.raise \in { "TypeError", "ValueError" }
    THEN [acc EXCEPT !.warnings = append_warning(@, WarnInvalidPrice(symbol))]
    ELSE converted

\* The body of "for symbol in symbols" for one symbol, on the outcome resp of
\* its request: the new (results, warnings), or the exception that escapes.
SymbolStep(acc, symbol, resp) ==
    IF "exc" \in DOMAIN resp
    THEN [acc EXCEPT !.warnings = append_warning(@, WarnMetalsDevRequest(symbol, resp.exc))]
    ELSE IF "not_json" \in DOMAIN resp
    THEN IF resp.not_json = "RequestException"
         THEN [acc EXCEPT !.warnings = append_warning(@, WarnMetalsDevRequest(symbol, JSONDecodeError))]
         ELSE [raise |-> "ValueError"]
    ELSE IF "raise" \in DOMAIN PriceOf(resp.payload) THEN PriceOf(resp.payload)
    ELSE IF IsNull(PriceOf(resp.payload).ok)
    THEN [acc EXCEPT !.warnings = append_warning(@, WarnNoPrice(symbol))]
    ELSE PriceStep(acc, symbol, FloatOf(PriceOf(resp.payload).ok))

RECURSIVE SymbolsLoop(_, _, _, _)
SymbolsLoop(acc, symbols, resps, i) ==
    IF i > Len(symbols) \/ "raise" \in DOMAIN acc THEN acc
    ELSE SymbolsLoop(SymbolStep(acc, symbols[i], resps[i]), symbols, resps, i + 1)

\* The adapter, for the credential read from the environment and the
\* outcome resps[i] of the request for symbols[i]: the returned record, or
\* [raise |-> the exception that escapes].
get_aluminum_from_metalsdev(symbols, api_key, resps) ==
    LET results == [s \in { symbols[i] : i \in 1..Len(symbols) } |-> None]
    IN  IF KeyMissing(api_key)
        THEN [values |-> results, warnings |-> append_warning(<< >>, WarnNoApiKey)]
        ELSE SymbolsLoop([values |-> results, warnings |-> << >>], symbols, resps, 1)

\* requests.get(METALS_DEV_SPOT_URL, params={"metal": symbol.lower()},
\*              headers={"Authorization": f"Bearer {api_key}"}, timeout=10)
MetalsDevRequest(symbol, api_key) ==
    Request("METALS_DEV_SPOT_URL",
            Some([metal |-> Lower(symbol)]),
            Some([Authorization |-> Str(<<"B", "e", "a", "r", "e", "r", " ">>) \o api_key]),
            Some(RequestTimeout))

\* The GETs the adapter sends with the credential api_key: one per symbol up
\* to the one whose handling raises.
RECURSIVE RequestsSent(_, _, _, _)
RequestsSent(symbols, api_key, resps, i) ==
    IF i > Len(symbols) THEN << >>
    ELSE << MetalsDevRequest(symbols[i], api_key) >>
         \o (IF "raise" \in DOMAIN SymbolStep([values |-> [s \in {symbols[i]} |-> None],
                                                 warnings |-> << >>], symbols[i], resps[i])
             THEN << >>
             ELSE RequestsSent(symbols, api_key, resps, i + 1))

\* The GETs the adapter sends: none without a credential.
metalsdev_requests(symbols, api_key, resps) ==
    IF KeyMissing(api_key) THEN << >> ELSE RequestsSent(symbols, Get(api_key), resps, 1)

\* ---------------------------------------- get_ali_f_from_yfinance (adapter)

\* The closes of the rows the provider returns; None is a missing close
\* (NaN).
CloseSamples == { None, Some(Int2Dec(2460)) }

\* The frame of ticker.history(): its rows in index order, the index being
\* the trading days 1, 2, ... in increasing order.
Histories ==
    { [i \in 1..Len(c) |-> [date |-> i, close |-> c[i]]] : c \in SeqsUpTo(CloseSamples, MaxHist) }

HistoryFailure(rows) ==
    IF \A i \in 1..Len(rows) : IsNone(rows[i].close) THEN "empty" ELSE "none"

\* The outcome of the library call: any exception, or the frame.
YfinanceResponses ==
    RequestExceptions \cup { [failure |-> HistoryFailure(h), rows |-> h] : h \in Histories }

WarnEmptySeries == Warning("Serie ALI=F vazia retornada pelo yfinance.", << >>)

WarnYfinance(exc) == Warning("Erro ao acessar yfinance para ALI=F: {exc}", <<exc>>)

\* history["Close"].dropna(): the (date, close) points whose close is there.
DropNa(rows) ==
    LET kept == SelectSeq(rows, LAMBDA r : ~IsNone(r.close))
    IN  [i \in 1..Len(kept) |-> [date |-> kept[i].date, close |-> Get(kept[i].close)]]

get_ali_f_from_yfinance(resp) ==
    IF "exc" \in DOMAIN resp
    THEN [series |-> None, warnings |-> append_warning(<< >>, WarnYfinance(resp.exc))]
    ELSE IF Len(resp.rows) > 0
    THEN [series |-> Some(DropNa(resp.rows)), warnings |-> << >>]
    ELSE [series |-> None, warnings |-> append_warning(<< >>, WarnEmptySeries)]

\* ----------------------------------------------- get_ptax_brl_usd (adapter)

Txt5c43 == Str(<<"5", ",", "4", "3">>)

KeyValor == Str(<<"v", "a", "l", "o", "r">>)

KeyValue == Str(<<"v", "a", "l", "u", "e">>)

KeyErro == Str(<<"e", "r", "r", "o">>)

PtaxResponses ==
    RequestExceptions
    \cup { [failure |-> "malformed", not_json |-> e] : e \in JsonErrors }
    \cup { [failure |-> "none", payload |-> JArr(<<JObj(<<Item(KeyValor, JStr(Txt5c43))>>)>>)],
           [failure |-> "none", payload |-> JArr(<<JObj(<<Item(KeyValue, JNum(Dec(543, 2)))>>)>>)],
           [failure |-> "malformed", payload |-> JArr(<<JObj(<<Item(KeyValor, JStr(TxtNA))>>)>>)],
           [failure |-> "malformed", payload |-> JArr(<<JObj(<< >>)>>)],
           [failure |-> "malformed", payload |-> JArr(<<JNull>>)],
           [failure |-> "malformed", payload |-> JObj(<<Item(KeyErro, JStr(TxtNA))>>)],
           [failure |-> "empty", payload |-> JArr(<< >>)] }

WarnPtaxInvalid == Warning("Valor PTAX invalido retornado pela API do BCB.", << >>)

WarnPtaxEmpty == Warning("Nenhum dado retornado pela API PTAX.", << >>)

WarnPtaxRequest(exc) == Warning("Erro na requisicao PTAX: {exc}", <<exc>>)

\* payload[-1] of a truthy payload, as [ok |-> the entry] or [raise |-> the
\* exception that is not caught].
LastEntry(payload) ==
    IF IsArr(payload) THEN [ok |-> payload.arr[Len(payload.arr)]]
    ELSE IF IsObj(payload) THEN [raise |-> "KeyError"]
    ELSE IF IsStr(payload) THEN [ok |-> JStr(<<payload.str[Len(payload.str)]>>)]
    ELSE [raise |-> "TypeError"]

\* latest_entry.get("valor") or latest_entry.get("value")
ValorOf(entry) ==
    IF Truthy(DictGet(entry, KeyValor)) THEN DictGet(entry, KeyValor) ELSE DictGet(entry, KeyValue)

\* float(str(valor).replace(",", "."))
PtaxFloat(valor) == ParseFloat(Replace(PyStr(valor), Ord[","], Ord["."]))

\* The dict the adapter returns for the float fx_value the last entry
\* converts to; None stands for ValueError.
PtaxResult(fx_value) ==
    IF IsNone(fx_value)
    THEN [fx |-> None, warnings |-> append_warning(<< >>, WarnPtaxInvalid)]
    ELSE [fx |-> fx_value, warnings |-> << >>]

get_ptax_brl_usd(resp) ==
    IF "exc" \in DOMAIN resp
    THEN [fx |-> None, warnings |-> append_warning(<< >>, WarnPtaxRequest(resp.exc))]
    ELSE IF "not_json" \in DOMAIN resp
    THEN IF resp.not_json = "RequestException"
         THEN [fx |-> None, warnings |-> append_warning(<< >>, WarnPtaxRequest(JSONDecodeError))]
         ELSE [raise |-> "ValueError"]
    ELSE IF ~Truthy(resp.payload)
    THEN [fx |-> None, warnings |-> append_warning(<< >>, WarnPtaxEmpty)]
    ELSE IF "raise" \in DOMAIN LastEntry(resp.payload) THEN LastEntry(resp.payload)
    ELSE IF ~IsObj(LastEntry(resp.payload).ok) THEN [raise |-> "AttributeError"]
    ELSE PtaxResult(PtaxFloat(ValorOf(LastEntry(resp.payload).ok)))

\* -------------------------------------------------------------- analytics

\* bool(x) of an Optional[float]: None, 0.0 and -0.0 are false.
FloatTruthy(o) == ~IsNone(o) /\ ~FIsZero(Get(o))

\* a or b or 0.0, a float whatever a and b are
OrElseZero(a, b) ==
    IF FloatTruthy(a) THEN Get(a) ELSE IF FloatTruthy(b) THEN Get(b) ELSE DecZero

\* (serie_precos < valor_atual).sum()
CountBelow(serie, valor) == Cardinality({ i \in 1..Len(serie) : DecLess(serie[i].close, valor) })

calcular_percentil_preco(serie_precos, valor_atual) ==
    IF IsNone(serie_precos) \/ Len(Get(serie_precos)) = 0 THEN None
    ELSE Some(FDiv(Int2Dec(CountBelow(Get(serie_precos), valor_atual)),
                   Int2Dec(Len(Get(serie_precos)))))

calcular_spread_3m_cash(lme_3m_usd_t, lme_cash_usd_t) ==
    IF IsNone(lme_3m_usd_t) \/ IsNone(lme_cash_usd_t) THEN None
    ELSE Some(DecSub(Get(lme_3m_usd_t), Get(lme_cash_usd_t)))

\* tolerancia: float = 1e-6
Tolerancia == Dec(1, 6)

classificar_estrutura_curva(spread_3m_cash) ==
    IF IsNone(spread_3m_cash) THEN "desconhecida"
    ELSE IF DecLess(Tolerancia, Get(spread_3m_cash)) THEN "contango"
    ELSE IF DecLess(Get(spread_3m_cash), FNeg(Tolerancia)) THEN "backwardation"
    ELSE "neutro"

\* np.log(ratio) for the quotient ratio of the prices p and q: "nan" (the
\* log of NaN, as 0/0 is, or of a negative quotient), "inf" (the log of a
\* quotient that is 0 or infinite), or the finite log-return, kept as the
\* pair it is the log-quotient of.
LogOf(ratio, p, q) ==
    IF ratio.kind = "nan" \/ (ratio.neg /\ ~FIsZero(ratio))
    THEN [kind |-> "nan", of |-> << >>]
    ELSE IF ratio.kind = "inf" \/ FIsZero(ratio) THEN [kind |-> "inf", of |-> << >>]
    ELSE [kind |-> "log", of |-> <<p, q>>]

\* One entry of np.log(serie / serie.shift(1)) for the prices p (today) and
\* q (the day before).
LogReturn(p, q) == LogOf(FDiv(p, q), p, q)

\* np.log(serie / serie.shift(1)).dropna(): the first entry has no day
\* before and is NaN.
Retornos(serie) ==
    SelectSeq([i \in 1..(Len(serie) - 1) |-> LogReturn(serie[i + 1].close, serie[i].close)],
              LAMBDA r : r.kind # "nan")

\* float(retornos.std() * np.sqrt(dias_ano)): the sample standard deviation
\* (ddof = 1) is NaN for a single return and for one that is infinite; a
\* finite result is kept as the returns it is the deviation of.
calcular_volatilidade(serie_precos) ==
    IF IsNone(serie_precos) \/ Len(Get(serie_precos)) < 2 THEN None
    ELSE IF Len(Retornos(Get(serie_precos))) = 0 THEN None
    ELSE IF Len(Retornos(Get(serie_precos))) < 2
            \/ \E i \in 1..Len(Retornos(Get(serie_precos))) : Retornos(Get(serie_precos))[i].kind = "inf"
    THEN Some([nan |-> TRUE, std_of |-> << >>])
    ELSE Some([nan |-> FALSE, std_of |-> Retornos(Get(serie_precos))])

\* The value the percentile is taken against.
PercentilValor(lme_3m_usd_t, lme_cash_usd_t) == OrElseZero(lme_3m_usd_t, lme_cash_usd_t)

gerar_resumo_analytics(serie_precos, lme_3m_usd_t, lme_cash_usd_t) ==
    [ spread_3m_cash  |-> calcular_spread_3m_cash(lme_3m_usd_t, lme_cash_usd_t),
      percentil_lme   |-> calcular_percentil_preco(serie_precos, PercentilValor(lme_3m_usd_t, lme_cash_usd_t)),
      estrutura_curva |-> Some(classificar_estrutura_curva(
                                   calcular_spread_3m_cash(lme_3m_usd_t, lme_cash_usd_t))),
      volatilidade    |-> calcular_volatilidade(serie_precos) ]

\* ------------------------------------------------------------- cost model

WarnPrefInvalid ==
    Warning("Parametro 'usar_preco_preferencial' invalido; usando 3M como padrao.", << >>)

WarnFallback3M == Warning("Cotacao preferencial ausente; utilizando LME 3M disponivel.", << >>)

WarnFallbackCash == Warning("Cotacao preferencial ausente; utilizando LME Cash disponivel.", << >>)

WarnNoReference == Warning("Nenhuma referencia LME disponivel para calculo de custo.", << >>)

WarnNoPremios == Warning("Premios nao informados; componente considerado zero.", << >>)

WarnNoFrete == Warning("Frete nao informado; componente considerado zero.", << >>)

WarnNoOutros == Warning("Outros custos nao informados; componente considerado zero.", << >>)

\* The preference after the validity check.
Preferencia(usar_preco_preferencial) ==
    IF usar_preco_preferencial \in {"3m", "cash"} THEN usar_preco_preferencial ELSE "3m"

\* A selection that ignores the preference: 3M whenever it is there.
LmeEscolhidaSempre3M(lme_cash_usd_t, lme_3m_usd_t, pref) ==
    IF ~IsNone(lme_3m_usd_t) THEN lme_3m_usd_t ELSE lme_cash_usd_t

\* lme_escolhida
LmeEscolhida(lme_cash_usd_t, lme_3m_usd_t, pref) ==
    IF pref = "3m" /\ ~IsNone(lme_3m_usd_t) THEN lme_3m_usd_t
    ELSE IF pref = "cash" /\ ~IsNone(lme_cash_usd_t) THEN lme_cash_usd_t
    ELSE IF ~IsNone(lme_3m_usd_t) THEN lme_3m_usd_t
    ELSE IF ~IsNone(lme_cash_usd_t) THEN lme_cash_usd_t
    ELSE None

\* The warning of the reference selection, if any.
SelecaoWarnings(lme_cash_usd_t, lme_3m_usd_t, pref) ==
    IF pref = "3m" /\ ~IsNone(lme_3m_usd_t) THEN << >>
    ELSE IF pref = "cash" /\ ~IsNone(lme_cash_usd_t) THEN << >>
    ELSE IF ~IsNone(lme_3m_usd_t) THEN <<WarnFallback3M>>
    ELSE IF ~IsNone(lme_cash_usd_t) THEN <<WarnFallbackCash>>
    ELSE <<WarnNoReference>>

\* x if x is not None else 0.0
OrZero(o) == IF IsNone(o) THEN DecZero ELSE Get(o)

calcular_custo_aluminio(lme_cash_usd_t, lme_3m_usd_t, premios_usd_t, frete_usd_t, outros_custos_usd_t, usar_preco_preferencial) ==
    LET pref      == Preferencia(usar_preco_preferencial)
        escolhida == LmeEscolhida(lme_cash_usd_t, lme_3m_usd_t, pref)
    IN  [ lme_referencia_usd_t |-> escolhida,
          premios_usd_t        |-> OrZero(premios_usd_t),
          frete_usd_t          |-> OrZero(frete_usd_t),
          outros_custos_usd_t  |-> OrZero(outros_custos_usd_t),
          custo_total_usd_t    |->
              IF IsNone(escolhida) THEN None
              ELSE Some(DecAdd(DecAdd(DecAdd(Get(escolhida), OrZero(premios_usd_t)),
                                      OrZero(frete_usd_t)), OrZero(outros_custos_usd_t))),
          warnings             |->
              (IF usar_preco_preferencial \in {"3m", "cash"} THEN << >> ELSE <<WarnPrefInvalid>>)
              \o SelecaoWarnings(lme_cash_usd_t, lme_3m_usd_t, pref)
              \o (IF IsNone(premios_usd_t) THEN <<WarnNoPremios>> ELSE << >>)
              \o (IF IsNone(frete_usd_t) THEN <<WarnNoFrete>> ELSE << >>)
              \o (IF IsNone(outros_custos_usd_t) THEN <<WarnNoOutros>> ELSE << >>) ]

\* ---------------------------------------------------------------- insights

\* dict.get(key) on a dict whose values are Optionals.
OptGet(d, key) == IF key \in DOMAIN d THEN d[key] ELSE None

\* dict.get(key, default)
GetOr(d, key, default) == IF key \in DOMAIN d THEN d[key] ELSE default

Insight(text, arg) == [text |-> text, arg |-> arg]

\* regras.get("limite_percentil_baixo", 30)
LimitePercentilBaixo(regras) == GetOr(regras, "limite_percentil_baixo", Int2Dec(30))

\* regras.get("limite_estoque_alto", 100000)
LimiteEstoqueAlto(regras) == GetOr(regras, "limite_estoque_alto", Int2Dec(100000))

\* analytics.get("percentil_preco")
PercentilLido(analytics) == OptGet(analytics, "percentil_preco")

InsightPercentil(analytics, regras) ==
    IF ~IsNone(PercentilLido(analytics))
    THEN IF DecLeq(Get(PercentilLido(analytics)), LimitePercentilBaixo(regras))
         THEN Insight("Preco atual em percentil baixo: oportunidade de compra.", << >>)
         ELSE Insight("Preco nao esta em percentil baixo; avaliar timing de compra.", << >>)
    ELSE Insight("Percentil de preco indisponivel; revisar historico e preco atual.", << >>)

InsightEstoque(snapshot_, regras) ==
    IF ~IsNone(OptGet(snapshot_, "lme_stock_t"))
    THEN IF DecLeq(LimiteEstoqueAlto(regras), Get(snapshot_.lme_stock_t))
         THEN Insight("Estoque LME elevado sugere oferta confortavel.", << >>)
         ELSE Insight("Estoque LME nao esta elevado; risco de aperto de oferta.", << >>)
    ELSE Insight("Estoque LME indisponivel; acompanhar boletins de estoque.", << >>)

InsightEstrutura(analytics) ==
    IF ~IsNone(OptGet(analytics, "estrutura_curva"))
    THEN IF Get(analytics.estrutura_curva) = "contango"
         THEN Insight("Curva em contango: mercado bem abastecido no curto prazo.", << >>)
         ELSE IF Get(analytics.estrutura_curva) = "backwardation"
         THEN Insight("Curva em backwardation: premio para disponibilidade imediata.", << >>)
         ELSE Insight("Curva neutra: sem sinal claro de escassez ou excesso.", << >>)
    ELSE Insight("Estrutura de curva indisponivel; verificar spreads.", << >>)

InsightVolatilidade(analytics) ==
    IF ~IsNone(OptGet(analytics, "volatilidade"))
    THEN Insight("Volatilidade anualizada em {volatilidade:.2%}; avaliar hedge conforme politica.",
                 <<Get(analytics.volatilidade)>>)
    ELSE Insight("Volatilidade nao calculada; coletar historico suficiente.", << >>)

\* warnings.extend(analytics.get("warnings", [])) on the list that
\* snapshot.get("warnings", []) returns: the snapshot's own list when the
\* key is there.
InsightsExtend(warnings_, more) == warnings_ \o more

WarningsAfterInsights(snapshot_, analytics) ==
    InsightsExtend(GetOr(snapshot_, "warnings", << >>), GetOr(analytics, "warnings", << >>))

\* The snapshot as the call leaves it.
SnapshotAfterInsights(snapshot_, analytics) ==
    IF "warnings" \in DOMAIN snapshot_
    THEN [snapshot_ EXCEPT !.warnings = WarningsAfterInsights(snapshot_, analytics)]
    ELSE snapshot_

\* The list the call returns.
gerar_insights_compra(snapshot_, analytics, parametros_regra) ==
    LET regras == IF IsNone(parametros_regra) \/ DOMAIN Get(parametros_regra) = {}
                  THEN << >> ELSE Get(parametros_regra)
        avisos == WarningsAfterInsights(snapshot_, analytics)
    IN  << InsightPercentil(analytics, regras),
           InsightEstoque(snapshot_, regras),
           InsightEstrutura(analytics),
           InsightVolatilidade(analytics) >>
        \o [i \in 1..Len(avisos) |-> Insight("Aviso de dados: {aviso}", <<avisos[i]>>)]

\* -------------------------------------------------------------- aggregator

\* The new warnings put in front of the list instead of behind it.
PrependWarnings(warnings_, more) == more \o warnings_

\* warnings.extend(more)
ExtendWarnings(warnings_, more) == warnings_ \o more

\* The provenance of the exchange page taken from its cash price alone.
SourcesUsedCashOnly(data) == ~IsNone(data.cash_usd_t)

\* any(value is not None for key, value in westmetall_data.items()
\*     if key != "warnings")
SourcesUsedWestmetall(data) == \E k \in DOMAIN data \ {"warnings"} : ~IsNone(data[k])

\* any(value is not None for value in metals_dev_data.get("values", {}).values())
SourcesUsedMetalsDev(data) == \E k \in DOMAIN data.values : ~IsNone(data.values[k])

\* yfinance_data.get("series") is not None
SourcesUsedYfinance(data) == ~IsNone(data.series)

\* ptax_data.get("fx") is not None
SourcesUsedPtax(data) == ~IsNone(data.fx)

\* westmetall_data.pop("warnings", []) leaves the dict without the key.
PopWarnings(data) == [k \in DOMAIN data \ {"warnings"} |-> data[k]]

\* snapshot["lme_3m_usd_t"]
Snapshot3M(west, metals) == west.three_month_usd_t

\* snapshot["lme_cash_usd_t"]
SnapshotCash(west, metals) == west.cash_usd_t

\* snapshot["spot_metals_dev_usd_t"]
SnapshotSpot(metals) ==
    IF ALUMINUM \in DOMAIN metals.values /\ ~IsNone(metals.values[ALUMINUM])
    THEN metals.values[ALUMINUM]
    ELSE None

\* The dict the aggregator returns; its "warnings" and "sources_used" are
\* the aggregator's own list and dict.
BuildSnapshot(west, metals, yf, ptax, sources, warns, today) ==
    [ lme_cash_usd_t        |-> SnapshotCash(west, metals),
      lme_3m_usd_t          |-> Snapshot3M(west, metals),
      lme_stock_t           |-> west.stock_t,
      fx_spot_brl_usd       |-> ptax.fx,
      history_usd_t         |-> yf.series,
      sources_used          |-> sources,
      warnings              |-> warns,
      spot_metals_dev_usd_t |-> SnapshotSpot(metals),
      data_atualizacao      |-> today ]

\* date.today().isoformat()
Dates == { "2026-10-31" }

\* main.DEFAULT_PARAMETROS
DEFAULT_PARAMETROS ==
    [ percentil_baixo |-> Dec(3, 1), percentil_alto |-> Dec(7, 1),
      estoque_alto |-> Int2Dec(500000), estoque_baixo |-> Int2Dec(250000) ]

\* The parametros argument of executar_fluxo and of a direct call of
\* gerar_insights_compra: None, or a dict of rule parameters.
ParametrosSamples ==
    { None,
      Some(DEFAULT_PARAMETROS),
      Some([limite_percentil_baixo |-> Dec(3, 1), limite_estoque_alto |-> Int2Dec(600000)]) }

\* parametros or DEFAULT_PARAMETROS
ParametrosOrDefault(parametros) ==
    IF IsNone(parametros) \/ DOMAIN Get(parametros) = {} THEN Some(DEFAULT_PARAMETROS) ELSE parametros

\* A warning a caller of gerar_insights_compra puts in its analytics dict.
WarnCaller == Warning("Historico com lacunas.", << >>)

\* The "warnings" entry of the analytics dict of a direct call: no such key,
\* an empty list, or a list of one warning.
AnalyticsWarnings == { None, Some(<< >>), Some(<<WarnCaller>>) }

\* The analytics dict of a direct call: the summary, with that entry.
WithWarnings(resumo, aw) ==
    IF IsNone(aw) THEN resumo
    ELSE [k \in DOMAIN resumo \cup {"warnings"} |-> IF k = "warnings" THEN Get(aw) ELSE resumo[k]]

\* ------------------------------------------------------------------- state

VARIABLES
    pc,               \* where the run of executar_fluxo is
    env_api_key,      \* METALS_DEV_API_KEY in the environment of the process
    westmetall_data,  \* the aggregator's locals
    metals_dev_data,
    yfinance_data,
    ptax_data,
    warnings,
    sources_used,
    snapshot,         \* the dict the aggregator returned
    resumo_analytics, \* executar_fluxo's locals
    custos,
    custo_args,       \* the arguments of the last call of calcular_custo_aluminio
    insights,         \* the list the last call of gerar_insights_compra returned
    calls,            \* the adapters invoked so far, each with the warnings it returned
    http_requests,    \* the requests.get calls sent so far
    failure,          \* per adapter, the failure class of what its source answered
    raised,           \* the exception that ended the run, "" when none did
    consumer_calls    \* direct calls of gerar_insights_compra after the run

vars ==
    << pc, env_api_key, westmetall_data, metals_dev_data, yfinance_data, ptax_data,
       warnings, sources_used, snapshot, resumo_analytics, custos, custo_args, insights,
       calls, http_requests, failure, raised, consumer_calls >>

Unset == << >>

Adapters == <<"westmetall", "metals_dev", "yfinance", "ptax">>

Init ==
    /\ pc = "westmetall"
    /\ env_api_key \in ApiKeys
    /\ westmetall_data = Unset
    /\ metals_dev_data = Unset
    /\ yfinance_data = Unset
    /\ ptax_data = Unset
    /\ warnings = << >>
    /\ sources_used = [westmetall |-> FALSE, metals_dev |-> FALSE, yfinance |-> FALSE, ptax |-> FALSE]
    /\ snapshot = Unset
    /\ resumo_analytics = Unset
    /\ custos = Unset
    /\ custo_args = Unset
    /\ insights = Unset
    /\ calls = << >>
    /\ http_requests = << >>
    /\ failure = [westmetall |-> "", metals_dev |-> "", yfinance |-> "", ptax |-> ""]
    /\ raised = ""
    /\ consumer_calls = 0

\* The arguments of a call of calcular_custo_aluminio; the pipeline leaves
\* the three components and the preference at their defaults.
CustoArgs(lme_cash_usd_t, lme_3m_usd_t, premios_usd_t, frete_usd_t, outros_custos_usd_t, usar_preco_preferencial) ==
    [ lme_cash_usd_t          |-> lme_cash_usd_t,
      lme_3m_usd_t            |-> lme_3m_usd_t,
      premios_usd_t           |-> premios_usd_t,
      frete_usd_t             |-> frete_usd_t,
      outros_custos_usd_t     |-> outros_custos_usd_t,
      usar_preco_preferencial |-> usar_preco_preferencial ]

Call(adapter, returned) == [adapter |-> adapter, warnings |-> returned]

\* An exception leaves the adapter: it leaves the aggregator and
\* executar_fluxo too, neither catches anything.
Escapes(adapter, exc) ==
    /\ pc' = "raised"
    /\ raised' = exc
    /\ calls' = Append(calls, Call(adapter, << >>))
    /\ UNCHANGED << westmetall_data, metals_dev_data, yfinance_data, ptax_data, warnings,
                    sources_used, snapshot >>

\* The statements after the call of the adapter, for the dict r it returned.
AfterWestmetall(resp, r) ==
    /\ westmetall_data' = PopWarnings(r)
    /\ warnings' = ExtendWarnings(warnings, r.warnings)
    /\ sources_used' = [sources_used EXCEPT !.westmetall = SourcesUsedWestmetall(PopWarnings(r))]
    /\ calls' = Append(calls, Call("westmetall", r.warnings))
    /\ failure' = [failure EXCEPT !.westmetall = resp.failure]

\* westmetall_data = get_lme_from_westmetall() and the two statements after it
CallWestmetall ==
    /\ pc = "westmetall"
    /\ \E resp \in WestmetallResponses : AfterWestmetall(resp, get_lme_from_westmetall(resp))
    /\ http_requests' = Append(http_requests, Request("WESTMETALL_URL", None, None, Some(RequestTimeout)))
    /\ pc' = "metals_dev"
    /\ UNCHANGED << env_api_key, metals_dev_data, yfinance_data, ptax_data, snapshot,
                    resumo_analytics, custos, custo_args, insights, raised, consumer_calls >>

\* The requests of the call of the adapter and the statements after it, for
\* the dict r it returned or the exception it raised.
AfterMetalsDev(resp, r) ==
    /\ http_requests' = http_requests \o metalsdev_requests(<<ALUMINUM>>, env_api_key, <<resp>>)
    /\ failure' = [failure EXCEPT !.metals_dev =
                      IF env_api_key \in { None, Some(<< >>) } THEN "credential" ELSE resp.failure]
    /\ IF "raise" \in DOMAIN r
       THEN Escapes("metals_dev", r.raise)
       ELSE /\ metals_dev_data' = r
            /\ warnings' = ExtendWarnings(warnings, r.warnings)
            /\ sources_used' = [sources_used EXCEPT !.metals_dev = SourcesUsedMetalsDev(r)]
            /\ calls' = Append(calls, Call("metals_dev", r.warnings))
            /\ pc' = "yfinance"
            /\ UNCHANGED << westmetall_data, yfinance_data, ptax_data, snapshot, raised >>

\* metals_dev_data = get_aluminum_from_metalsdev(["ALUMINUM"]) and the two
\* statements after it
CallMetalsDev ==
    /\ pc = "metals_dev"
    /\ \E resp \in MetalsDevResponses :
        AfterMetalsDev(resp, get_aluminum_from_metalsdev(<<ALUMINUM>>, env_api_key, <<resp>>))
    /\ UNCHANGED << env_api_key, resumo_analytics, custos, custo_args, insights, consumer_calls >>

\* The statements after the call of the adapter, for the dict r it returned.
AfterYfinance(resp, r) ==
    /\ yfinance_data' = r
    /\ warnings' = ExtendWarnings(warnings, r.warnings)
    /\ sources_used' = [sources_used EXCEPT !.yfinance = SourcesUsedYfinance(r)]
    /\ calls' = Append(calls, Call("yfinance", r.warnings))
    /\ failure' = [failure EXCEPT !.yfinance = resp.failure]

\* yfinance_data = get_ali_f_from_yfinance() and the two statements after it
CallYfinance ==
    /\ pc = "yfinance"
    /\ \E resp \in YfinanceResponses : AfterYfinance(resp, get_ali_f_from_yfinance(resp))
    /\ pc' = "ptax"
    /\ UNCHANGED << env_api_key, westmetall_data, metals_dev_data, ptax_data, snapshot,
                    resumo_analytics, custos, custo_args, insights, http_requests, raised, consumer_calls >>

\* The statements after the call of the adapter, for the dict r it returned
\* or the exception it raised.
AfterPtax(resp, today, r) ==
    /\ failure' = [failure EXCEPT !.ptax = resp.failure]
    /\ IF "raise" \in DOMAIN r
       THEN Escapes("ptax", r.raise)
       ELSE /\ ptax_data' = r
            /\ warnings' = ExtendWarnings(warnings, r.warnings)
            /\ sources_used' = [sources_used EXCEPT !.ptax = SourcesUsedPtax(r)]
            /\ calls' = Append(calls, Call("ptax", r.warnings))
            /\ snapshot' = BuildSnapshot(westmetall_data, metals_dev_data, yfinance_data,
                                         r, sources_used', warnings', today)
            /\ pc' = "returned"
            /\ UNCHANGED << westmetall_data, metals_dev_data, yfinance_data, raised >>

\* ptax_data = get_ptax_brl_usd() and the rest of the aggregator: the
\* snapshot is built and returned.
CallPtax ==
    /\ pc = "ptax"
    /\ \E resp \in PtaxResponses, today \in Dates : AfterPtax(resp, today, get_ptax_brl_usd(resp))
    /\ http_requests' = Append(http_requests, Request("BCB_PTAX_URL", None, None, Some(RequestTimeout)))
    /\ UNCHANGED << env_api_key, resumo_analytics, custos, custo_args, insights, consumer_calls >>

\* The statements of executar_fluxo after the summary resumo is computed.
AfterResumo(resumo) ==
    /\ resumo_analytics' = resumo
    /\ custo_args' = CustoArgs(snapshot.lme_cash_usd_t, snapshot.lme_3m_usd_t,
                               None, None, None, "3m")
    /\ custos' = calcular_custo_aluminio(snapshot.lme_cash_usd_t, snapshot.lme_3m_usd_t,
                                         None, None, None, "3m")
    /\ snapshot' = SnapshotAfterInsights(snapshot, resumo)
    /\ \E parametros \in ParametrosSamples :
           insights' = gerar_insights_compra(snapshot, resumo, ParametrosOrDefault(parametros))

\* The rest of executar_fluxo(parametros): the summary, the cost and the
\* insights, computed on the snapshot.
ExecutarFluxo ==
    /\ pc = "returned"
    /\ AfterResumo(gerar_resumo_analytics(snapshot.history_usd_t, snapshot.lme_3m_usd_t,
                                          snapshot.lme_cash_usd_t))
    /\ pc' = "done"
    /\ UNCHANGED << env_api_key, westmetall_data, metals_dev_data, yfinance_data, ptax_data,
                    warnings, sources_used, calls, http_requests, failure, raised, consumer_calls >>

\* A caller that holds the snapshot and the summary of a finished run calls
\* gerar_insights_compra(snapshot, analytics, parametros) itself.
ConsumerInsights ==
    /\ pc = "done"
    /\ consumer_calls < MaxConsumerCalls
    /\ \E aw \in AnalyticsWarnings, parametros \in ParametrosSamples :
        /\ insights' = gerar_insights_compra(snapshot, WithWarnings(resumo_analytics, aw), parametros)
        /\ snapshot' = SnapshotAfterInsights(snapshot, WithWarnings(resumo_analytics, aw))
    /\ consumer_calls' = consumer_calls + 1
    /\ UNCHANGED << pc, env_api_key, westmetall_data, metals_dev_data, yfinance_data, ptax_data,
                    warnings, sources_used, resumo_analytics, custos, custo_args, calls,
                    http_requests, failure, raised >>

Next ==
    \/ CallWestmetall
    \/ CallMetalsDev
    \/ CallYfinance
    \/ CallPtax
    \/ ExecutarFluxo
    \/ ConsumerInsights

Spec == Init /\ [][Next]_vars

\* ------------------------------------------- the cost model called directly

\* The references a caller passes: None, 0.0 and a quotation.
LmeCashSamples == { None, Some(DecZero), Some(Int2Dec(2450)) }

Lme3MSamples == { None, Some(DecZero), Some(Int2Dec(2500)) }

\* The components a caller passes: None or an amount in USD/t.
PremiosSamples == { None, Some(Int2Dec(150)) }

FreteSamples == { None, Some(Dec(805, 1)) }

OutrosSamples == { None, Some(Int2Dec(20)) }

\* The preferences a caller passes: the two valid ones, and values the
\* validity test rejects.
PreferenciaSamples == { "3m", "cash", "3M", "spot" }

\* A caller is about to call calcular_custo_aluminio with arguments of its
\* own; nothing of the pipeline has run.
InitCusto ==
    /\ pc = "custo"
    /\ custo_args \in { CustoArgs(c, t, p, f, o, u) :
                            c \in LmeCashSamples, t \in Lme3MSamples, p \in PremiosSamples,
                            f \in FreteSamples, o \in OutrosSamples, u \in PreferenciaSamples }
    /\ custos = Unset
    /\ env_api_key = None
    /\ westmetall_data = Unset
    /\ metals_dev_data = Unset
    /\ yfinance_data = Unset
    /\ ptax_data = Unset
    /\ warnings = << >>
    /\ sources_used = [westmetall |-> FALSE, metals_dev |-> FALSE, yfinance |-> FALSE, ptax |-> FALSE]
    /\ snapshot = Unset
    /\ resumo_analytics = Unset
    /\ insights = Unset
    /\ calls = << >>
    /\ http_requests = << >>
    /\ failure = [westmetall |-> "", metals_dev |-> "", yfinance |-> "", ptax |-> ""]
    /\ raised = ""
    /\ consumer_calls = 0

\* custos = calcular_custo_aluminio(**custo_args)
CalcularCusto ==
    /\ pc = "custo"
    /\ custos' = calcular_custo_aluminio(custo_args.lme_cash_usd_t, custo_args.lme_3m_usd_t,
                                         custo_args.premios_usd_t, custo_args.frete_usd_t,
                                         custo_args.outros_custos_usd_t,
                                         custo_args.usar_preco_preferencial)
    /\ pc' = "custo_done"
    /\ UNCHANGED << env_api_key, westmetall_data, metals_dev_data, yfinance_data, ptax_data,
                    warnings, sources_used, snapshot, resumo_analytics, custo_args, insights,
                    calls, http_requests, failure, raised, consumer_calls >>

NextCusto == CalcularCusto

SpecCusto == InitCusto /\ [][NextCusto]_vars

\* ------------------------------------------------------------------ claims

Returned == pc \in {"returned", "done"}

\* The adapters invoked so far, in invocation order.
Invoked == [i \in 1..Len(calls) |-> calls[i].adapter]

\* The warnings the adapters returned so far, concatenated in invocation
\* order.
RECURSIVE Concatenated(_)
Concatenated(cs) ==
    IF Len(cs) = 0 THEN << >> ELSE Head(cs).warnings \o Concatenated(Tail(cs))

\* The warnings adapter a returned, << >> before its call.
ReturnedBy(a) == Concatenated(SelectSeq(calls, LAMBDA c : c.adapter = a))

\* Some warning of adapter a is in the snapshot's list.
Explains(a) ==
    \E i \in 1..Len(ReturnedBy(a)) :
        \E j \in 1..Len(snapshot.warnings) : snapshot.warnings[j] = ReturnedBy(a)[i]

\* Every source answered with one of the failure classes.
AllFailed == \A a \in DOMAIN failure : failure[a] \notin {"", "none"}

\* C1 (as claimed): in a returned snapshot the near-term price is the
\* alternate-spot price when the exchange page gave none and the alternate
\* source gave one, and the exchange page's own price otherwise.
C1_FallbackLaw ==
    Returned =>
        /\ (IsNone(westmetall_data.three_month_usd_t)
                /\ ~IsNone(metals_dev_data.values[ALUMINUM]))
            => snapshot.lme_3m_usd_t = metals_dev_data.values[ALUMINUM]
        /\ ~IsNone(westmetall_data.three_month_usd_t)
            => snapshot.lme_3m_usd_t = westmetall_data.three_month_usd_t

\* C2 (as claimed): no exception leaves an adapter, whatever its source
\* answered: the run of the aggregator never ends in a raised exception.
C2_NoExceptionEscapes == pc # "raised" /\ raised = ""

\* C3 (as claimed, for the runs that do return): when every source answered
\* with a failure, the snapshot the aggregator returns has every optional
\* field None, every sources_used entry False and at least four warnings.
C3_TotalFailure ==
    (AllFailed /\ Returned) =>
        /\ IsNone(snapshot.lme_cash_usd_t)
        /\ IsNone(snapshot.lme_3m_usd_t)
        /\ IsNone(snapshot.lme_stock_t)
        /\ IsNone(snapshot.fx_spot_brl_usd)
        /\ IsNone(snapshot.history_usd_t)
        /\ IsNone(snapshot.spot_metals_dev_usd_t)
        /\ \A a \in DOMAIN snapshot.sources_used : ~snapshot.sources_used[a]
        /\ Len(warnings) >= 4

\* C4 (as claimed): in the snapshot the aggregator returns, every optional
\* field that is None has a warning of the adapter it comes from in the
\* warnings list.
C4_AbsenceExplained ==
    pc = "returned" =>
        /\ (IsNone(snapshot.lme_cash_usd_t) \/ IsNone(snapshot.lme_3m_usd_t)
                \/ IsNone(snapshot.lme_stock_t)) => Explains("westmetall")
        /\ IsNone(snapshot.spot_metals_dev_usd_t) => Explains("metals_dev")
        /\ IsNone(snapshot.history_usd_t) => Explains("yfinance")
        /\ IsNone(snapshot.fx_spot_brl_usd) => Explains("ptax")

\* C5: with the credential unset or empty, the alternate-spot adapter sends
\* no request, reports every symbol None and returns the one warning that
\* names the credential; the snapshot then has no alternate spot price and
\* sources_used["metals_dev"] False.
C5_MissingCredential ==
    (env_api_key \in { None, Some(<< >>) } /\ Len(calls) >= 2) =>
        /\ \A i \in 1..Len(http_requests) : http_requests[i].url # "METALS_DEV_SPOT_URL"
        /\ raised = "" \/ Len(calls) > 2
        /\ calls[2].warnings = <<WarnNoApiKey>>
        /\ pc \in {"yfinance", "ptax", "returned", "done"} =>
               \A k \in DOMAIN metals_dev_data.values : IsNone(metals_dev_data.values[k])
        /\ Returned =>
               /\ IsNone(snapshot.spot_metals_dev_usd_t)
               /\ ~snapshot.sources_used["metals_dev"]

\* C5 happens: a snapshot was returned in a process whose credential is the
\* empty string.
C5_Witness == env_api_key = Some(<< >>) /\ pc = "returned" /\ snapshot.sources_used["westmetall"]

\* C6: in a returned snapshot, sources_used[name] is True exactly when a
\* field that comes from that adapter is not None.
C6_Provenance ==
    Returned =>
        /\ snapshot.sources_used["westmetall"]
            <=> (~IsNone(snapshot.lme_cash_usd_t) \/ ~IsNone(snapshot.lme_3m_usd_t)
                    \/ ~IsNone(snapshot.lme_stock_t))
        /\ snapshot.sources_used["metals_dev"] <=> ~IsNone(snapshot.spot_metals_dev_usd_t)
        /\ snapshot.sources_used["yfinance"] <=> ~IsNone(snapshot.history_usd_t)
        /\ snapshot.sources_used["ptax"] <=> ~IsNone(snapshot.fx_spot_brl_usd)

\* C6 happens: a returned snapshot whose exchange page gave a stock but no
\* cash price, and whose currency rate is missing.
C6_Witness ==
    /\ pc = "returned"
    /\ IsNone(snapshot.lme_cash_usd_t)
    /\ ~IsNone(snapshot.lme_stock_t)
    /\ snapshot.sources_used["westmetall"]
    /\ ~snapshot.sources_used["ptax"]
    /\ snapshot.sources_used["yfinance"]

\* C7: the adapters are invoked once each in the order exchange page,
\* alternate spot, history, currency rate, and the warnings of the snapshot
\* the aggregator returns are the adapters' warning lists concatenated in
\* that order.
C7_WarningOrder ==
    /\ Len(calls) <= Len(Adapters)
    /\ Invoked = SubSeq(Adapters, 1, Len(calls))
    /\ pc = "returned" =>
           /\ Invoked = Adapters
           /\ snapshot.warnings = Concatenated(calls)

\* C7 happens: a returned snapshot with two warnings of the exchange page,
\* then one of the alternate source and one of the currency rate.
C7_Witness ==
    /\ pc = "returned"
    /\ Len(calls[1].warnings) = 2
    /\ Len(calls[2].warnings) = 1
    /\ Len(calls[4].warnings) = 1
    /\ Len(snapshot.warnings) >= 4

\* C8 (as claimed): the summary has no percentile when both reference
\* prices are None, no spread unless both are there, and neither percentile
\* nor volatility without a history.
C8_AbsencePropagates ==
    pc = "done" =>
        /\ (IsNone(snapshot.lme_3m_usd_t) /\ IsNone(snapshot.lme_cash_usd_t))
            => IsNone(resumo_analytics.percentil_lme)
        /\ (IsNone(snapshot.lme_3m_usd_t) \/ IsNone(snapshot.lme_cash_usd_t))
            => IsNone(resumo_analytics.spread_3m_cash)
        /\ IsNone(snapshot.history_usd_t)
            => (IsNone(resumo_analytics.percentil_lme) /\ IsNone(resumo_analytics.volatilidade))

\* C9 (as claimed): once returned, the snapshot is never changed, whatever
\* analytics a call of gerar_insights_compra is given.
C9_SnapshotImmutable == [][Returned => snapshot' = snapshot]_vars

\* The dates of a series strictly increase.
StrictlyIncreasing(serie) ==
    \A i \in 1..Len(serie) : \A j \in 1..Len(serie) : i < j => serie[i].date < serie[j].date

\* C10 (as claimed): the history of a returned snapshot is None or a
\* non-empty series of strictly increasing dates, and
\* sources_used["yfinance"] is True only for a non-empty series.
C10_HistoryWellFormed ==
    Returned =>
        /\ \/ IsNone(snapshot.history_usd_t)
           \/ /\ Len(Get(snapshot.history_usd_t)) > 0
              /\ StrictlyIncreasing(Get(snapshot.history_usd_t))
        /\ snapshot.sources_used["yfinance"] =>
               (~IsNone(snapshot.history_usd_t) /\ Len(Get(snapshot.history_usd_t)) > 0)

\* C11 (as claimed): the volatility of the summary is None whenever the
\* history yields fewer than 2 valid return observations, and a value that is
\* there is a real number, never NaN, resting on at least 2 valid returns.
C11_VolatilityAbsence ==
    pc = "done" =>
        /\ (IsNone(snapshot.history_usd_t) \/ Len(Retornos(Get(snapshot.history_usd_t))) < 2)
            => IsNone(resumo_analytics.volatilidade)
        /\ ~IsNone(resumo_analytics.volatilidade)
            => /\ ~Get(resumo_analytics.volatilidade).nan
               /\ Len(Get(resumo_analytics.volatilidade).std_of) >= 2

\* A call of calcular_custo_aluminio has returned.
CustoCalled == pc \in {"custo_done", "done"}

\* w is one of the warnings ws.
HasWarning(ws, w) == \E i \in 1..Len(ws) : ws[i] = w

\* C12: whatever references, components and preference it is given,
\* calcular_custo_aluminio picks the preferred reference when it is there,
\* otherwise the remaining one when that is there, with the fallback
\* warning; an invalid preference counts as "3m" and is warned about; the
\* reference and the total are None exactly when both references are None,
\* and otherwise the total is the chosen reference plus premiums, freight
\* and other costs, each one that is None counted as 0.
C12_ReferenceSelection ==
    CustoCalled =>
        LET valid     == custo_args.usar_preco_preferencial \in {"3m", "cash"}
            pref      == IF valid THEN custo_args.usar_preco_preferencial ELSE "3m"
            preferred == IF pref = "3m" THEN custo_args.lme_3m_usd_t ELSE custo_args.lme_cash_usd_t
            remaining == IF pref = "3m" THEN custo_args.lme_cash_usd_t ELSE custo_args.lme_3m_usd_t
            fallback  == IF pref = "3m" THEN WarnFallbackCash ELSE WarnFallback3M
            chosen    == IF ~IsNone(preferred) THEN preferred ELSE remaining
            none      == IsNone(custo_args.lme_3m_usd_t) /\ IsNone(custo_args.lme_cash_usd_t)
            amount(o) == IF IsNone(o) THEN DecZero ELSE Get(o)
        IN  /\ custos.lme_referencia_usd_t = chosen
            /\ HasWarning(custos.warnings, WarnPrefInvalid) <=> ~valid
            /\ HasWarning(custos.warnings, fallback) <=> (IsNone(preferred) /\ ~IsNone(remaining))
            /\ ~IsNone(preferred) =>
                   /\ ~HasWarning(custos.warnings, WarnFallback3M)
                   /\ ~HasWarning(custos.warnings, WarnFallbackCash)
            /\ IsNone(custos.lme_referencia_usd_t) <=> none
            /\ IsNone(custos.custo_total_usd_t) <=> none
            /\ ~none =>
                   custos.custo_total_usd_t =
                       Some(DecAdd(DecAdd(DecAdd(Get(chosen), amount(custo_args.premios_usd_t)),
                                          amount(custo_args.frete_usd_t)),
                                   amount(custo_args.outros_custos_usd_t)))

\* C12 happens: a call that prefers cash, has only the 3M reference, gives
\* premiums and other costs but no freight, and got the 3M reference and a
\* total back.
C12_Witness ==
    /\ pc = "custo_done"
    /\ custo_args.usar_preco_preferencial = "cash"
    /\ IsNone(custo_args.lme_cash_usd_t)
    /\ custo_args.lme_3m_usd_t = Some(Int2Dec(2500))
    /\ custo_args.premios_usd_t = Some(Int2Dec(150))
    /\ IsNone(custo_args.frete_usd_t)
    /\ custo_args.outros_custos_usd_t = Some(Int2Dec(20))
    /\ custos.lme_referencia_usd_t = Some(Int2Dec(2500))
    /\ custos.custo_total_usd_t = Some(Int2Dec(2670))

\* executar_fluxo has finished and nothing has called gerar_insights_compra
\* since: insights is the list of the run.
FluxoDone == pc = "done" /\ consumer_calls = 0

\* Some insight of the list has the text.
HasInsight(ins, text) == \E i \in 1..Len(ins) : ins[i].text = text

\* C13 (as claimed): at the end of every run of executar_fluxo whose summary
\* holds a percentile, the insights have a percentile-based message, low or
\* not low, and not the message that the percentile is unavailable.
C13_PercentileHandOff ==
    (FluxoDone /\ ~IsNone(resumo_analytics.percentil_lme)) =>
        /\ \/ HasInsight(insights, "Preco atual em percentil baixo: oportunidade de compra.")
           \/ HasInsight(insights, "Preco nao esta em percentil baixo; avaliar timing de compra.")
        /\ ~HasInsight(insights, "Percentil de preco indisponivel; revisar historico e preco atual.")

====
